---- MODULE Spec2Model ----
(***************************************************************************)
(* applink: the OAuth 2.0 authorization-code flow of internal/auth, and    *)
(* the local certificate authority of internal/certs.                      *)
(*                                                                         *)
(* DoOAuthFlow (the orchestrator), the callback server it starts (the      *)
(* /callback handler, run once per request in its own goroutine, and the   *)
(* goroutine that runs ListenAndServe), the two buffered channels between  *)
(* them, and the code-for-token exchange: specifications Spec and          *)
(* SpecCallback; SpecFair is Spec with the fairness of the Go scheduler.   *)
(*                                                                         *)
(* The two CA files, the trust store, and the commands that change them    *)
(* (applink init, and ensureCertsInitialized of applink login), one run    *)
(* after the other: specification SpecCerts.                               *)
(*                                                                         *)
(* parseTokenResponse applied to token responses: specification SpecParse. *)
(*                                                                         *)
(* The system keychain of internal/storage and the commands that use it    *)
(* (setup, login, token, logout), one run after the other: specification   *)
(* SpecStore.                                                              *)
(*                                                                         *)
(* ~/.cursor/mcp.json of internal/mcp with applink mcp add and remove,     *)
(* next to login and logout: specification SpecMCP.                        *)
(*                                                                         *)
(* A Go string is a sequence of atoms (<<>> is ""), a nil pointer or a nil *)
(* error is the empty sequence, a non-nil one a one-element sequence or a  *)
(* non-empty message. A url.Values entry is the list of the values given   *)
(* for the key: <<>> when the key is absent, << <<>> >> when it is present *)
(* with the empty value.                                                   *)
(***************************************************************************)
EXTENDS Integers, Sequences, FiniteSets, TLC

VARIABLES
    service,        \* service.ID of the flow
    portBusy,       \* environment: another process holds the callback port
    pc,             \* DoOAuthFlow's position
    expectedState,  \* state, as generateState returned it
    authURL,        \* the authorization URL buildAuthURL returned
    server,         \* "none" before startCallbackServer, then "nil" or "created"
    inShutdown,     \* server.Shutdown has been called
    lpc,            \* the goroutine that runs server.ListenAndServe
    codeChan,       \* make(chan string, 1): the buffered value, if any
    errChan,        \* make(chan error, 1): the buffered value, if any
    reqs,           \* the callback requests served so far, with their handlers
    sent,           \* history: the channel sends completed, in order
    selectReady,    \* history: the channels that were ready when select was entered
    received,       \* the case of the select that was taken
    browser,        \* the authorization URL printed, the browser opened or not
    shutdownCalls,  \* number of calls of shutdownServer
    exchange,       \* the token-exchange requests sent, with their responses
    result,         \* what DoOAuthFlow (and so doOAuthLogin) returned
    goos,           \* runtime.GOOS
    keyFile,        \* ~/.applink/certs/applink-ca-key.pem
    certFile,       \* ~/.applink/certs/applink-ca.pem
    trustStore,     \* the CA certificate in the system trust store
    serial,         \* number of authorities generated so far
    cli,            \* the command that ran last: its inputs, calls, output, return
    leaf,           \* what the last call of GenerateServerCert returned
    clock,          \* time.Now(), in seconds; the zero time.Time is 0
    parse,          \* the last call of parseTokenResponse: its arguments and return
    keychain,       \* the entries of the system keychain
    store,          \* the keychain command that ran last: inputs, branch, return
    cursor          \* ~/.cursor/mcp.json: <<>> when absent, else the CursorConfig

vars == <<service, portBusy, pc, expectedState, authURL, server, inShutdown, lpc,
          codeChan, errChan, reqs, sent, selectReady, received, browser,
          shutdownCalls, exchange, result,
          goos, keyFile, certFile, trustStore, serial, cli, leaf,
          clock, parse, keychain, store, cursor>>

\* The state of package certs and of the command line
certVars == <<goos, keyFile, certFile, trustStore, serial, cli, leaf>>

\* The clock and the calls made on the packages directly
libVars == <<clock, parse, keychain, store, cursor>>

----------------------------------------------------------------------------
(* Bounds and input domains *)

\* callback requests served in one flow
MaxRequests == 2
\* length of the state value generateState returns
StateLen == 2

StateAlphabet == {"a", "b"}

SeqsUpTo(S, n) == UNION {[1..k -> S] : k \in 0..n}

Services == {"slack", "notion", "linear"}

\* The keys of serviceRegistry: the three OAuth services and honeycomb, whose
\* AuthType is AuthTypeAPIKey
serviceRegistry == Services \cup {"honeycomb"}

Creds == [ClientID |-> <<"client-id">>, ClientSecret |-> <<"client-secret">>]

defaultCallbackPort == 8888

----------------------------------------------------------------------------
(* Strings *)

\* strings.Contains
Contains(s, sub) ==
    \E i \in 0..(Len(s) - Len(sub)) : SubSeq(s, i + 1, i + Len(sub)) = sub

\* url.QueryUnescape, as url.ParseQuery applies it to every value: '+' is a space
\* (the inputs carry no %XX escapes).
QueryUnescape(s) == [i \in 1..Len(s) |-> IF s[i] = "+" THEN " " ELSE s[i]]

\* r.URL.Query(): the raw query of the request, every value unescaped
Query(raw) == [k \in DOMAIN raw |-> [i \in 1..Len(raw[k]) |-> QueryUnescape(raw[k][i])]]

\* url.Values.Get: the first value of the key, "" when there is none
Get(q, k) == IF Len(q[k]) = 0 THEN <<>> ELSE q[k][1]

----------------------------------------------------------------------------
(* The /callback handler *)

\* Variant of callbackHandler: the error parameter is not looked at
callbackHandlerMutNoErrorCheck(rawQuery, expected) ==
    LET q == Query(rawQuery)
        state == Get(q, "state")
        code == Get(q, "code")
    IN  IF state # expected
        THEN [chan |-> "err", val |-> <<"state mismatch: possible CSRF attack">>,
              status |-> 400, page |-> "errorHTML"]
        ELSE IF code = <<>>
        THEN [chan |-> "err", val |-> <<"no authorization code in callback">>,
              status |-> 400, page |-> "errorHTML"]
        ELSE [chan |-> "code", val |-> code, status |-> 200, page |-> "successHTML"]

\* Variant of callbackHandler: a state that is a prefix of the expected one passes
callbackHandlerMutPrefixState(rawQuery, expected) ==
    LET q == Query(rawQuery)
        errParam == Get(q, "error")
        errDesc == Get(q, "error_description")
        state == Get(q, "state")
        code == Get(q, "code")
    IN  IF errParam # <<>>
        THEN [chan |-> "err", val |-> errParam \o <<": ">> \o errDesc,
              status |-> 400, page |-> "errorHTML"]
        ELSE IF ~(Len(state) <= Len(expected) /\ SubSeq(expected, 1, Len(state)) = state)
        THEN [chan |-> "err", val |-> <<"state mismatch: possible CSRF attack">>,
              status |-> 400, page |-> "errorHTML"]
        ELSE IF code = <<>>
        THEN [chan |-> "err", val |-> <<"no authorization code in callback">>,
              status |-> 400, page |-> "errorHTML"]
        ELSE [chan |-> "code", val |-> code, status |-> 200, page |-> "successHTML"]

\* Variant of callbackHandler: the state is sent in place of the code
callbackHandlerMutStateAsCode(rawQuery, expected) ==
    LET q == Query(rawQuery)
        errParam == Get(q, "error")
        errDesc == Get(q, "error_description")
        state == Get(q, "state")
        code == Get(q, "code")
    IN  IF errParam # <<>>
        THEN [chan |-> "err", val |-> errParam \o <<": ">> \o errDesc,
              status |-> 400, page |-> "errorHTML"]
        ELSE IF state # expected
        THEN [chan |-> "err", val |-> <<"state mismatch: possible CSRF attack">>,
              status |-> 400, page |-> "errorHTML"]
        ELSE IF code = <<>>
        THEN [chan |-> "err", val |-> <<"no authorization code in callback">>,
              status |-> 400, page |-> "errorHTML"]
        ELSE [chan |-> "code", val |-> state, status |-> 200, page |-> "successHTML"]

\* Variant of callbackHandler: error_description is used as it is in the raw query
callbackHandlerMutRawDescription(rawQuery, expected) ==
    LET q == Query(rawQuery)
        errParam == Get(q, "error")
        errDesc == Get(rawQuery, "error_description")
        state == Get(q, "state")
        code == Get(q, "code")
    IN  IF errParam # <<>>
        THEN [chan |-> "err", val |-> errParam \o <<": ">> \o errDesc,
              status |-> 400, page |-> "errorHTML"]
        ELSE IF state # expected
        THEN [chan |-> "err", val |-> <<"state mismatch: possible CSRF attack">>,
              status |-> 400, page |-> "errorHTML"]
        ELSE IF code = <<>>
        THEN [chan |-> "err", val |-> <<"no authorization code in callback">>,
              status |-> 400, page |-> "errorHTML"]
        ELSE [chan |-> "code", val |-> code, status |-> 200, page |-> "successHTML"]

\* The handler up to its channel send: the channel and the value it sends, the
\* HTTP status and the page it has written.
callbackHandler(rawQuery, expected) ==
    LET q == Query(rawQuery)
        errParam == Get(q, "error")
        errDesc == Get(q, "error_description")
        state == Get(q, "state")
        code == Get(q, "code")
    IN  IF errParam # <<>>
        THEN [chan |-> "err", val |-> errParam \o <<": ">> \o errDesc,
              status |-> 400, page |-> "errorHTML"]
        ELSE IF state # expected
        THEN [chan |-> "err", val |-> <<"state mismatch: possible CSRF attack">>,
              status |-> 400, page |-> "errorHTML"]
        ELSE IF code = <<>>
        THEN [chan |-> "err", val |-> <<"no authorization code in callback">>,
              status |-> 400, page |-> "errorHTML"]
        ELSE [chan |-> "code", val |-> code, status |-> 200, page |-> "successHTML"]

----------------------------------------------------------------------------
(* The token exchange *)

StatusOK == 200
StatusBadRequest == 400

\* resp.StatusCode: 200, another 2xx, a 4xx and a 5xx
Statuses == {StatusOK, 201, StatusBadRequest}

\* A token-endpoint response body: raw is string(body); json says whether
\* json.Unmarshal into a map succeeds; the other fields are what the type
\* assertions of parseTokenResponse see (ok: "absent", "true", "false", or
\* "string" for a value that is no bool; a string field that is absent or no
\* string reads as ""; authed_user is <<>> when absent or no object).
Body(raw, json, ok, error, access_token, authed_user, team) ==
    [raw |-> raw, json |-> json, ok |-> ok, error |-> error,
     access_token |-> access_token, authed_user |-> authed_user, team |-> team,
     refresh_token |-> <<>>, token_type |-> <<>>, scope |-> <<>>, expires_in |-> <<>>]

\* A JSON number and a JSON string, as the values of expires_in
Number(n) == [type |-> "number", num |-> n, str |-> ""]
String(str) == [type |-> "string", num |-> 0, str |-> str]

Bodies ==
    { Body("not json", FALSE, "absent", <<>>, <<>>, <<>>, <<>>),
      Body("{}", TRUE, "absent", <<>>, <<>>, <<>>, <<>>),
      Body("{\"error\":\"invalid_grant\"}", TRUE, "absent", <<"invalid_grant">>, <<>>, <<>>, <<>>),
      Body("{\"access_token\":\"tok\"}", TRUE, "absent", <<>>, <<"tok">>, <<>>, <<>>),
      Body("{\"ok\":true,\"authed_user\":{\"access_token\":\"xoxp\",\"scope\":\"chat:write\"},\"team\":{\"id\":\"T1\"}}",
           TRUE, "true", <<>>, <<>>,
           <<[access_token |-> <<"xoxp">>, scope |-> <<"chat:write">>]>>, <<[id |-> <<"T1">>]>>),
      Body("{\"ok\":false,\"error\":\"invalid_code\",\"authed_user\":{\"access_token\":\"xoxp\"}}",
           TRUE, "false", <<"invalid_code">>, <<>>,
           <<[access_token |-> <<"xoxp">>, scope |-> <<>>]>>, <<>>),
      Body("{\"ok\":true,\"authed_user\":{}}", TRUE, "true", <<>>, <<>>,
           <<[access_token |-> <<>>, scope |-> <<>>]>>, <<>>),
      Body("{\"ok\":false,\"error\":\"invalid_code\"}", TRUE, "false", <<"invalid_code">>,
           <<>>, <<>>, <<>>) }

\* The bodies sent with a status other than 200: an OAuth error, and two that
\* hold an access token
ErrorBodies ==
    { b \in Bodies : \/ b.error = <<"invalid_grant">>
                     \/ b.access_token # <<>>
                     \/ (b.ok = "true" /\ b.team # <<>>) }

\* What client.Do and io.ReadAll give: a transport error (err non-nil), or a
\* status and a body.
Responses ==
    { [err |-> <<"connection refused">>, status |-> 0, body |-> b] :
        b \in {Body("", FALSE, "absent", <<>>, <<>>, <<>>, <<>>)} }
    \cup { [err |-> <<>>, status |-> StatusOK, body |-> b] : b \in Bodies }
    \cup { [err |-> <<>>, status |-> st, body |-> b] :
             st \in Statuses \ {StatusOK}, b \in ErrorBodies }

\* &Token{}
ZeroToken ==
    [AccessToken |-> <<>>, RefreshToken |-> <<>>, TokenType |-> <<>>, Scope |-> <<>>,
     TeamID |-> <<>>, ExpiresAt |-> 0]

\* The default case of parseTokenResponse: the standard OAuth2 response
standardToken(body) ==
    [ZeroToken EXCEPT
       !.AccessToken = body.access_token,
       !.RefreshToken = body.refresh_token,
       !.TokenType = body.token_type,
       !.Scope = body.scope,
       !.ExpiresAt = IF /\ body.expires_in # <<>>
                        /\ body.expires_in[1].type = "number"
                        /\ body.expires_in[1].num > 0
                     THEN clock + body.expires_in[1].num
                     ELSE 0]

\* (*Token, error) as a record: token is <<>> for nil, err is <<>> for nil
Ret(token, err) == [token |-> token, err |-> err]

\* The error of json.Unmarshal for a body that is not JSON: it names the
\* character at which the decoder stopped, `not json` stops at its second
\* character, `x` at its first
jsonUnmarshalError(raw) ==
    IF raw = "x"
    THEN <<"invalid character ", "x", " looking for beginning of value">>
    ELSE <<"invalid character ", "o", " in literal null (expecting 'u')">>

\* Variant of parseTokenResponse: slack's ok is not looked at
parseTokenResponseMutNoOkCheck(svc, body) ==
    IF ~body.json
    THEN Ret(<<>>, <<"failed to parse token response: ">> \o jsonUnmarshalError(body.raw))
    ELSE LET token ==
                IF svc = "slack"
                THEN [ZeroToken EXCEPT
                        !.AccessToken = IF body.authed_user # <<>>
                                        THEN body.authed_user[1].access_token ELSE <<>>,
                        !.Scope = IF body.authed_user # <<>>
                                  THEN body.authed_user[1].scope ELSE <<>>,
                        !.TeamID = IF body.team # <<>> THEN body.team[1].id ELSE <<>>]
                ELSE standardToken(body)
         IN  IF token.AccessToken = <<>>
             THEN Ret(<<>>, <<"no access token in response: ", body.raw>>)
             ELSE Ret(<<token>>, <<>>)

\* Variant of parseTokenResponse: slack's ok has to be the boolean true
parseTokenResponseMutOkRequired(svc, body) ==
    IF ~body.json
    THEN Ret(<<>>, <<"failed to parse token response: ">> \o jsonUnmarshalError(body.raw))
    ELSE IF svc = "slack" /\ body.ok # "true"
    THEN Ret(<<>>, <<"slack auth failed: ">> \o body.error)
    ELSE LET token ==
                IF svc = "slack"
                THEN [ZeroToken EXCEPT
                        !.AccessToken = IF body.authed_user # <<>>
                                        THEN body.authed_user[1].access_token ELSE <<>>,
                        !.Scope = IF body.authed_user # <<>>
                                  THEN body.authed_user[1].scope ELSE <<>>,
                        !.TeamID = IF body.team # <<>> THEN body.team[1].id ELSE <<>>]
                ELSE standardToken(body)
         IN  IF token.AccessToken = <<>>
             THEN Ret(<<>>, <<"no access token in response: ", body.raw>>)
             ELSE Ret(<<token>>, <<>>)

\* parseTokenResponse: json.Unmarshal, the switch on service.ID, and the
\* check of the access token
parseTokenResponse(svc, body) ==
    IF ~body.json
    THEN Ret(<<>>, <<"failed to parse token response: ">> \o jsonUnmarshalError(body.raw))
    ELSE IF svc = "slack" /\ body.ok = "false"
    THEN Ret(<<>>, <<"slack auth failed: ">> \o body.error)
    ELSE LET token ==
                IF svc = "slack"
                THEN [ZeroToken EXCEPT
                        !.AccessToken = IF body.authed_user # <<>>
                                        THEN body.authed_user[1].access_token ELSE <<>>,
                        !.Scope = IF body.authed_user # <<>>
                                  THEN body.authed_user[1].scope ELSE <<>>,
                        !.TeamID = IF body.team # <<>> THEN body.team[1].id ELSE <<>>]
                ELSE standardToken(body)
         IN  IF token.AccessToken = <<>>
             THEN Ret(<<>>, <<"no access token in response: ", body.raw>>)
             ELSE Ret(<<token>>, <<>>)

useTLSScheme(useTLS) == IF useTLS THEN "https" ELSE "http"

\* fmt.Sprintf("%s://localhost:%d/callback", scheme, port)
RedirectURI(scheme, port) ==
    [scheme |-> scheme, host |-> "localhost", port |-> port, path |-> "/callback"]

\* The TokenURL of the service registry
TokenURLOf(svc) ==
    CASE svc = "slack" -> "https://slack.com/api/oauth.v2.access"
      [] svc = "notion" -> "https://api.notion.com/v1/oauth/token"
      [] svc = "linear" -> "https://api.linear.app/oauth/token"

\* base64.StdEncoding.EncodeToString, kept as the octets it encodes
Base64(octets) == [base64 |-> octets]

\* Variant of exchangeData: the redirect_uri is always http
exchangeDataMutAlwaysHTTP(code, port, useTLS) ==
    [grant_type |-> "authorization_code", code |-> code,
     redirect_uri |-> RedirectURI("http", port)]

\* The form fields set on data before the client credentials
exchangeData(code, port, useTLS) ==
    [grant_type |-> "authorization_code", code |-> code,
     redirect_uri |-> RedirectURI(useTLSScheme(useTLS), port)]

\* data after data.Set("client_id", ...) and data.Set("client_secret", ...)
WithCredentials(data, creds) ==
    [k \in DOMAIN data \cup {"client_id", "client_secret"} |->
        CASE k = "client_id" -> creds.ClientID
          [] k = "client_secret" -> creds.ClientSecret
          [] OTHER -> data[k]]

\* Variant of exchangeRequest: notion gets the credentials in the body as well
exchangeRequestMutBothPlaces(svc, creds, code, port, useTLS) ==
    [method |-> "POST", url |-> TokenURLOf(svc),
     header |-> IF svc = "notion"
                THEN [Authorization |-> <<"Basic ", Base64(creds.ClientID \o <<":">>
                                                           \o creds.ClientSecret)>>,
                      ContentType |-> "application/x-www-form-urlencoded"]
                ELSE [ContentType |-> "application/x-www-form-urlencoded"],
     body |-> WithCredentials(exchangeData(code, port, useTLS), creds)]

\* The request exchangeCode builds for the token endpoint: the switch on
\* service.ID, each case creating the request from the encoded data
exchangeRequest(svc, creds, code, port, useTLS) ==
    LET data == exchangeData(code, port, useTLS)
    IN  CASE svc = "notion" ->
               [method |-> "POST", url |-> TokenURLOf(svc),
                header |-> [Authorization |-> <<"Basic ", Base64(creds.ClientID \o <<":">>
                                                                 \o creds.ClientSecret)>>,
                            ContentType |-> "application/x-www-form-urlencoded"],
                body |-> data]
          [] svc = "slack" ->
               [method |-> "POST", url |-> TokenURLOf(svc),
                header |-> [ContentType |-> "application/x-www-form-urlencoded"],
                body |-> WithCredentials(data, creds)]
          [] OTHER ->
               [method |-> "POST", url |-> TokenURLOf(svc),
                header |-> [ContentType |-> "application/x-www-form-urlencoded"],
                body |-> WithCredentials(data, creds)]

\* Variant of exchangeCode: the status code is not looked at
exchangeCodeMutIgnoreStatus(svc, resp) ==
    IF resp.err # <<>> THEN Ret(<<>>, resp.err)
    ELSE parseTokenResponse(svc, resp.body)

\* Variant of exchangeCode: the error of a non-200 answer leaves the body out
exchangeCodeMutNoBody(svc, resp) ==
    IF resp.err # <<>> THEN Ret(<<>>, resp.err)
    ELSE IF resp.status # StatusOK
    THEN Ret(<<>>, <<"token exchange failed: ">>)
    ELSE parseTokenResponse(svc, resp.body)

\* exchangeCode from the response on
exchangeCode(svc, resp) ==
    IF resp.err # <<>> THEN Ret(<<>>, resp.err)
    ELSE IF resp.status # StatusOK
    THEN Ret(<<>>, <<"token exchange failed: ", resp.body.raw>>)
    ELSE parseTokenResponse(svc, resp.body)

----------------------------------------------------------------------------
(* The provider registry and the authorization URL *)

\* serviceRegistry: the OAuth services
AuthURLOf(svc) ==
    CASE svc = "slack" -> "https://slack.com/oauth/v2/authorize"
      [] svc = "notion" -> "https://api.notion.com/v1/oauth/authorize"
      [] svc = "linear" -> "https://linear.app/oauth/authorize"

ScopesOf(svc) ==
    CASE svc = "slack" -> <<"channels:read", "channels:history", "groups:read",
                            "groups:history", "chat:write", "users:read">>
      [] svc = "notion" -> <<>>
      [] svc = "linear" -> <<"read", "write", "issues:create", "comments:create">>

\* Variant of serviceRequiresTLS: no service requires HTTPS
serviceRequiresTLSMutNever(svc) == FALSE

\* serviceRequiresTLS: the switch on service.ID
serviceRequiresTLS(svc) == svc = "slack"

\* strings.Join
RECURSIVE Join(_, _)
Join(elems, sep) ==
    IF Len(elems) = 0 THEN <<>>
    ELSE IF Len(elems) = 1 THEN <<elems[1]>>
    ELSE <<elems[1], sep>> \o Join(Tail(elems), sep)

\* Variant of buildAuthURL: every provider gets `scope`, space-separated
buildAuthURLMutScopeOnly(svc, clientID, port, state, useTLS) ==
    LET fixed == [k \in {"client_id", "redirect_uri", "response_type", "state"} |->
                    CASE k = "client_id" -> clientID
                      [] k = "redirect_uri" -> <<RedirectURI(useTLSScheme(useTLS), port)>>
                      [] k = "response_type" -> <<"code">>
                      [] k = "state" -> state]
    IN  [base |-> AuthURLOf(svc),
         query |-> [k \in DOMAIN fixed \cup {"scope"} |->
                      IF k = "scope" THEN Join(ScopesOf(svc), " ") ELSE fixed[k]]]

\* buildAuthURL: the base URL and the query parameters set on it
buildAuthURL(svc, clientID, port, state, useTLS) ==
    LET fixed == [k \in {"client_id", "redirect_uri", "response_type", "state"} |->
                    CASE k = "client_id" -> clientID
                      [] k = "redirect_uri" -> <<RedirectURI(useTLSScheme(useTLS), port)>>
                      [] k = "response_type" -> <<"code">>
                      [] k = "state" -> state]
        scopeKey == IF svc = "slack" THEN "user_scope" ELSE "scope"
        scopeVal == IF svc = "slack" THEN Join(ScopesOf(svc), ",")
                    ELSE Join(ScopesOf(svc), " ")
    IN  [base |-> AuthURLOf(svc),
         query |-> IF Len(ScopesOf(svc)) > 0
                   THEN [k \in DOMAIN fixed \cup {scopeKey} |->
                           IF k = scopeKey THEN scopeVal ELSE fixed[k]]
                   ELSE fixed]

----------------------------------------------------------------------------
(* Callback requests *)

\* The raw query of a request: for each key the list of its raw values
RawQuery(error, desc, state, code) ==
    [error |-> error, error_description |-> desc, state |-> state, code |-> code]

\* Every combination of absent, empty and non-empty parameters; the state values
\* are all strings up to one atom longer than the expected one.
AllQueries ==
    { RawQuery(e, d, s, c) :
        e \in {<<>>, << <<>> >>, << <<"access_denied">> >>},
        d \in {<<>>, << <<"user", "+", "cancelled">> >>},
        s \in {<<>>} \cup { <<x>> : x \in SeqsUpTo(StateAlphabet, StateLen + 1) },
        c \in {<<>>, << <<>> >>, << <<"abc123">> >>} }

\* One request for each branch of the handler, for the flow's state S
FlowQueries(S) ==
    { RawQuery(<<>>, <<>>, <<S>>, << <<"abc123">> >>),
      RawQuery(<<>>, <<>>, <<S>>, << <<"xyz789">> >>),
      RawQuery(<< <<"access_denied">> >>, << <<"user", "+", "cancelled">> >>, <<>>, <<>>),
      RawQuery(<<>>, <<>>, <<SubSeq(S, 1, Len(S) - 1)>>, << <<"abc123">> >>),
      RawQuery(<<>>, <<>>, <<S>>, <<>>) }

----------------------------------------------------------------------------
(* The state machine *)

NoRet == Ret(<<>>, <<>>)

\* A file that does not exist
NoFile == [exists |-> FALSE, blocks |-> <<>>]

\* No command has run: DoOAuthFlow is entered directly
NoCommand == [cmd |-> "none", force |-> FALSE, service |-> "", caExists |-> FALSE,
              generate |-> "", install |-> "", ret |-> <<>>, out |-> <<>>]

\* tls.Certificate{} and a nil error
NoLeaf == [cert |-> <<>>, err |-> <<>>]

\* The keyring service names of the two kinds of entry: credentialsPrefix of
\* credentials.go and serviceName of keyring.go
credentialsPrefix == "applink_creds"
keyringServiceName == "applink"

\* The keys of the keychain entries; an entry is <<>> when absent, else <<data>>
KeychainKeys == {credentialsPrefix, keyringServiceName} \X serviceRegistry
EmptyKeychain == [k \in KeychainKeys |-> <<>>]

\* The record of a command: what it was given, the branch it took, what it
\* returned and printed
Command(cmd, name, env, available) ==
    [cmd |-> cmd, name |-> name, env |-> env, available |-> available,
     branch |-> "", ret |-> <<>>, out |-> <<>>, creds |-> <<>>, token |-> <<>>]

\* No keychain command has run
NoStore == Command("none", "", <<>>, <<>>)

\* os.ReadFile of ~/.cursor/mcp.json fails with os.IsNotExist
NoCursorConfig == <<>>

\* parseTokenResponse has not been called on its own
NoParse == [svc |-> "", body |-> <<>>, ret |-> NoRet]

NotReceived == [kind |-> "none", val |-> <<>>, from |-> 0]

Init ==
    /\ service \in Services
    /\ portBusy \in BOOLEAN
    /\ pc = "generateState"
    /\ expectedState = <<>>
    /\ authURL = <<>>
    /\ server = "none"
    /\ inShutdown = FALSE
    /\ lpc = "none"
    /\ codeChan = <<>>
    /\ errChan = <<>>
    /\ reqs = <<>>
    /\ sent = <<>>
    /\ selectReady = {}
    /\ received = NotReceived
    /\ browser = [printed |-> <<>>, opened |-> FALSE]
    /\ shutdownCalls = 0
    /\ exchange = <<>>
    /\ result = NoRet
    /\ goos = "linux"
    /\ keyFile = NoFile
    /\ certFile = NoFile
    /\ trustStore = NoFile
    /\ serial = 0
    /\ cli = NoCommand
    /\ leaf = NoLeaf
    /\ clock = 1
    /\ parse = NoParse
    /\ keychain = EmptyKeychain
    /\ store = NoStore
    /\ cursor = NoCursorConfig

\* generateState: 32 random bytes, base64url; here StateLen atoms
generateState ==
    /\ pc = "generateState"
    /\ \E s \in [1..StateLen -> StateAlphabet] :
         /\ expectedState' = s
         /\ pc' = "buildAuthURL"
    /\ UNCHANGED <<service, portBusy, authURL, server, inShutdown, lpc, codeChan, errChan,
                   reqs, sent, selectReady, received, browser, shutdownCalls, exchange,
                   result>>
    /\ UNCHANGED certVars
    /\ UNCHANGED libVars

\* rand.Read fails
generateStateFails ==
    /\ pc = "generateState"
    /\ result' = Ret(<<>>, <<"failed to generate state: ", "rand.Read failed">>)
    /\ pc' = "returned"
    /\ UNCHANGED <<service, portBusy, expectedState, authURL, server, inShutdown, lpc,
                   codeChan, errChan, reqs, sent, selectReady, received, browser,
                   shutdownCalls, exchange>>
    /\ UNCHANGED certVars
    /\ UNCHANGED libVars

\* buildAuthURL fails: url.Parse rejects the AuthURL of the Service DoOAuthFlow
\* was given, and DoOAuthFlow returns "failed to build auth URL: ..."
BuildAuthURLFails ==
    /\ pc = "buildAuthURL"
    /\ result' = Ret(<<>>, <<"failed to build auth URL: ", "parse: invalid URL">>)
    /\ pc' = "returned"
    /\ UNCHANGED <<service, portBusy, expectedState, authURL, server, inShutdown, lpc,
                   codeChan, errChan, reqs, sent, selectReady, received, browser,
                   shutdownCalls, exchange>>
    /\ UNCHANGED certVars
    /\ UNCHANGED libVars

\* Variant of BuildAuthURL: the URL carries a state generated a second time
BuildAuthURLMutSecondState ==
    /\ pc = "buildAuthURL"
    /\ \E other \in [1..StateLen -> StateAlphabet] :
         /\ other # expectedState
         /\ authURL' = <<buildAuthURL(service, Creds.ClientID, defaultCallbackPort,
                                      other, serviceRequiresTLS(service))>>
    /\ pc' = "startCallbackServer"
    /\ UNCHANGED <<service, portBusy, expectedState, server, inShutdown, lpc, codeChan,
                   errChan, reqs, sent, selectReady, received, browser, shutdownCalls,
                   exchange, result>>
    /\ UNCHANGED certVars
    /\ UNCHANGED libVars

BuildAuthURL ==
    /\ pc = "buildAuthURL"
    /\ authURL' = <<buildAuthURL(service, Creds.ClientID, defaultCallbackPort,
                                 expectedState, serviceRequiresTLS(service))>>
    /\ pc' = "startCallbackServer"
    /\ UNCHANGED <<service, portBusy, expectedState, server, inShutdown, lpc, codeChan,
                   errChan, reqs, sent, selectReady, received, browser, shutdownCalls,
                   exchange, result>>
    /\ UNCHANGED certVars
    /\ UNCHANGED libVars

\* startCallbackServer: the server is built and the goroutine that runs
\* ListenAndServe (ListenAndServeTLS with useTLS) is started
startCallbackServer ==
    /\ pc = "startCallbackServer"
    /\ server' = "created"
    /\ lpc' = "spawned"
    /\ pc' = "openBrowser"
    /\ UNCHANGED <<service, portBusy, expectedState, authURL, inShutdown, codeChan,
                   errChan, reqs, sent, selectReady, received, browser, shutdownCalls,
                   exchange, result>>
    /\ UNCHANGED certVars
    /\ UNCHANGED libVars

\* startCallbackServer with TLS when generateSelfSignedCert fails: the error is
\* sent on errChan (empty, so the send does not block) and nil is returned
startCallbackServerCertFails ==
    /\ pc = "startCallbackServer"
    /\ errChan' = <<[val |-> <<"failed to generate TLS certificate: ", "rand failed">>,
                     from |-> 0]>>
    /\ sent' = Append(sent, [chan |-> "err", from |-> 0])
    /\ server' = "nil"
    /\ pc' = "openBrowser"
    /\ UNCHANGED <<service, portBusy, expectedState, authURL, inShutdown, lpc, codeChan,
                   reqs, selectReady, received, browser, shutdownCalls, exchange, result>>
    /\ UNCHANGED certVars
    /\ UNCHANGED libVars

\* The two Printf before openBrowser: the authorization URL is on the terminal
PrintAuthURL ==
    /\ pc = "openBrowser"
    /\ browser.printed = <<>>
    /\ browser' = [browser EXCEPT !.printed = authURL]
    /\ UNCHANGED <<service, portBusy, pc, expectedState, authURL, server, inShutdown, lpc,
                   codeChan, errChan, reqs, sent, selectReady, received, shutdownCalls,
                   exchange, result>>
    /\ UNCHANGED certVars
    /\ UNCHANGED libVars

\* Variant of OpenBrowser: the error of openBrowser is returned
OpenBrowserMutFatal ==
    /\ pc = "openBrowser"
    /\ browser.printed # <<>>
    /\ \E ok \in BOOLEAN :
         /\ browser' = [browser EXCEPT !.opened = ok]
         /\ pc' = IF ok THEN "select" ELSE "returned"
         /\ result' = IF ok THEN result
                      ELSE Ret(<<>>, <<"failed to open browser: ", "exec failed">>)
    /\ UNCHANGED <<service, portBusy, expectedState, authURL, server, inShutdown, lpc,
                   codeChan, errChan, reqs, sent, selectReady, received, shutdownCalls,
                   exchange>>
    /\ UNCHANGED certVars
    /\ UNCHANGED libVars

\* openBrowser(authURL): it starts the browser or returns an error, which is
\* printed and not returned
OpenBrowser ==
    /\ pc = "openBrowser"
    /\ browser.printed # <<>>
    /\ \E ok \in BOOLEAN : browser' = [browser EXCEPT !.opened = ok]
    /\ pc' = "select"
    /\ UNCHANGED <<service, portBusy, expectedState, authURL, server, inShutdown, lpc,
                   codeChan, errChan, reqs, sent, selectReady, received, shutdownCalls,
                   exchange, result>>
    /\ UNCHANGED certVars
    /\ UNCHANGED libVars

----------------------------------------------------------------------------
(* The channels and the select of DoOAuthFlow *)

ChanBuf(c) == IF c = "code" THEN codeChan ELSE errChan

\* The channels a receive would not block on
Ready == { c \in {"code", "err"} : ChanBuf(c) # <<>> }

\* Where DoOAuthFlow goes on after the case on channel c
AfterCase(c) == IF c = "code" THEN "shutdownCode" ELSE "shutdownErr"

\* A send of msg on channel c. When DoOAuthFlow is blocked in its select the
\* value is handed to it and decides the select; otherwise it goes into the
\* buffer, and the send blocks (is not enabled) while the buffer is full.
Send(c, msg) ==
    /\ sent' = Append(sent, [chan |-> c, from |-> msg.from])
    /\ IF pc = "blocked"
       THEN /\ received' = [kind |-> c, val |-> msg.val, from |-> msg.from]
            /\ pc' = AfterCase(c)
            /\ UNCHANGED <<codeChan, errChan>>
       ELSE /\ ChanBuf(c) = <<>>
            /\ codeChan' = IF c = "code" THEN <<msg>> ELSE codeChan
            /\ errChan' = IF c = "err" THEN <<msg>> ELSE errChan
            /\ UNCHANGED <<pc, received>>

\* select entered with a channel ready: one of the ready cases is taken (Go
\* picks among the ready cases at random)
SelectReady ==
    /\ pc = "select"
    /\ Ready # {}
    /\ \E c \in Ready :
         /\ received' = [kind |-> c, val |-> ChanBuf(c)[1].val, from |-> ChanBuf(c)[1].from]
         /\ codeChan' = IF c = "code" THEN <<>> ELSE codeChan
         /\ errChan' = IF c = "err" THEN <<>> ELSE errChan
         /\ pc' = AfterCase(c)
    /\ selectReady' = Ready
    /\ UNCHANGED <<service, portBusy, expectedState, authURL, server, inShutdown, lpc,
                   reqs, sent, browser, shutdownCalls, exchange, result>>
    /\ UNCHANGED certVars
    /\ UNCHANGED libVars

\* select entered with no channel ready: DoOAuthFlow blocks
SelectBlock ==
    /\ pc = "select"
    /\ Ready = {}
    /\ pc' = "blocked"
    /\ UNCHANGED <<service, portBusy, expectedState, authURL, server, inShutdown, lpc,
                   codeChan, errChan, reqs, sent, selectReady, received, browser,
                   shutdownCalls, exchange, result>>
    /\ UNCHANGED certVars
    /\ UNCHANGED libVars

\* time.After(5 * time.Minute) fires while DoOAuthFlow is blocked in its select.
\* Nothing in the code orders the timer after the steps of the goroutine that
\* startCallbackServer started, so it may fire at any point of that goroutine
Timeout ==
    /\ pc = "blocked"
    /\ received' = [kind |-> "timeout", val |-> <<>>, from |-> 0]
    /\ pc' = "shutdownTimeout"
    /\ UNCHANGED <<service, portBusy, expectedState, authURL, server, inShutdown, lpc,
                   codeChan, errChan, reqs, sent, selectReady, browser, shutdownCalls,
                   exchange, result>>
    /\ UNCHANGED certVars
    /\ UNCHANGED libVars

----------------------------------------------------------------------------
(* The callback server *)

\* server.ListenAndServe in its goroutine, up to its call of net.Listen: it
\* returns ErrServerClosed when Shutdown was called before
ListenAndServe ==
    /\ lpc = "spawned"
    /\ lpc' = IF inShutdown THEN "exited" ELSE "listening"
    /\ UNCHANGED <<service, portBusy, pc, expectedState, authURL, server, inShutdown,
                   codeChan, errChan, reqs, sent, selectReady, received, browser,
                   shutdownCalls, exchange, result>>
    /\ UNCHANGED certVars
    /\ UNCHANGED libVars

\* net.Listen("tcp", server.Addr) inside ListenAndServe: the bind error when
\* the port is taken, else the port is bound; Shutdown may have run meanwhile
Listen ==
    /\ lpc = "listening"
    /\ lpc' = IF portBusy THEN "failed" ELSE "bound"
    /\ UNCHANGED <<service, portBusy, pc, expectedState, authURL, server, inShutdown,
                   codeChan, errChan, reqs, sent, selectReady, received, browser,
                   shutdownCalls, exchange, result>>
    /\ UNCHANGED certVars
    /\ UNCHANGED libVars

\* srv.Serve(ln) inside ListenAndServe: when Shutdown was called the listener
\* is closed and ErrServerClosed returned, else requests are accepted
Serve ==
    /\ lpc = "bound"
    /\ lpc' = IF inShutdown THEN "exited" ELSE "serving"
    /\ UNCHANGED <<service, portBusy, pc, expectedState, authURL, server, inShutdown,
                   codeChan, errChan, reqs, sent, selectReady, received, browser,
                   shutdownCalls, exchange, result>>
    /\ UNCHANGED certVars
    /\ UNCHANGED libVars

\* Variant of ListenError: the error of ListenAndServe is dropped
ListenErrorMutDropped ==
    /\ lpc = "failed"
    /\ lpc' = "exited"
    /\ UNCHANGED <<service, portBusy, pc, expectedState, authURL, server, inShutdown,
                   codeChan, errChan, reqs, sent, selectReady, received, browser,
                   shutdownCalls, exchange, result>>
    /\ UNCHANGED certVars
    /\ UNCHANGED libVars

\* err != http.ErrServerClosed: errChan <- "callback server error: ..."
ListenError ==
    /\ lpc = "failed"
    /\ Send("err", [val |-> <<"callback server error: ", "bind: address already in use">>,
                    from |-> 0])
    /\ lpc' = "exited"
    /\ UNCHANGED <<service, portBusy, expectedState, authURL, server, inShutdown, reqs,
                   selectReady, browser, shutdownCalls, exchange, result>>
    /\ UNCHANGED certVars
    /\ UNCHANGED libVars

\* The addresses of the machine: the loopback interface and a network card
LocalAddrs == {"127.0.0.1", "192.168.1.10"}

\* server.Addr: fmt.Sprintf(":%d", port), a port with no host
ServerAddr(port) == [host |-> "", port |-> port]

\* net.Listen("tcp", addr) as ListenAndServe calls it: with an empty host the
\* socket is bound to every address of the machine, else to the one named
Accepts(addr, ip, port) == (addr.host = "" \/ addr.host = ip) /\ addr.port = port

\* A request reaches /callback through the address via: the handler runs up to
\* its channel send (the page is written before the send)
Callback(queries, max, addrs) ==
    /\ lpc = "serving"
    /\ Len(reqs) < max
    /\ \E q \in queries, via \in addrs :
         /\ Accepts(ServerAddr(defaultCallbackPort), via, defaultCallbackPort)
         /\ reqs' = Append(reqs, [query |-> q, out |-> callbackHandler(q, expectedState),
                                  hpc |-> "send", via |-> via])
    /\ UNCHANGED <<service, portBusy, pc, expectedState, authURL, server, inShutdown, lpc,
                   codeChan, errChan, sent, selectReady, received, browser, shutdownCalls,
                   exchange, result>>
    /\ UNCHANGED certVars
    /\ UNCHANGED libVars

\* The handler of request i completes its send and returns
HandlerSend(i) ==
    /\ reqs[i].hpc = "send"
    /\ Send(reqs[i].out.chan, [val |-> reqs[i].out.val, from |-> i])
    /\ reqs' = [reqs EXCEPT ![i].hpc = "done"]
    /\ UNCHANGED <<service, portBusy, expectedState, authURL, server, inShutdown, lpc,
                   selectReady, browser, shutdownCalls, exchange, result>>
    /\ UNCHANGED certVars
    /\ UNCHANGED libVars

----------------------------------------------------------------------------
(* After the select *)

\* shutdownServer(server), then DoOAuthFlow goes to nextPc with ret. Shutdown
\* closes the listener; handlers still running keep running. On a nil server
\* the method call dereferences nil and the goroutine panics.
shutdownServer(nextPc, ret) ==
    /\ shutdownCalls' = shutdownCalls + 1
    /\ IF server = "nil"
       THEN /\ pc' = "panicked"
            /\ UNCHANGED <<inShutdown, lpc, result>>
       ELSE /\ inShutdown' = TRUE
            /\ lpc' = IF lpc = "serving" THEN "exited" ELSE lpc
            /\ pc' = nextPc
            /\ result' = ret

\* Variant of ReturnErr: the server is not shut down
ReturnErrMutNoShutdown ==
    /\ pc = "shutdownErr"
    /\ pc' = "returned"
    /\ result' = Ret(<<>>, received.val)
    /\ UNCHANGED <<service, portBusy, expectedState, authURL, server, codeChan, errChan,
                   reqs, sent, selectReady, received, browser, exchange, inShutdown, lpc,
                   shutdownCalls>>
    /\ UNCHANGED certVars
    /\ UNCHANGED libVars

\* case err := <-errChan: shutdownServer(server); return nil, err
ReturnErr ==
    /\ pc = "shutdownErr"
    /\ shutdownServer("returned", Ret(<<>>, received.val))
    /\ UNCHANGED <<service, portBusy, expectedState, authURL, server, codeChan, errChan,
                   reqs, sent, selectReady, received, browser, exchange>>
    /\ UNCHANGED certVars
    /\ UNCHANGED libVars

\* Variant of ReturnTimeout: no return, the flow falls out of the select
ReturnTimeoutMutFallThrough ==
    /\ pc = "shutdownTimeout"
    /\ shutdownServer("exchangeCode", NoRet)
    /\ UNCHANGED <<service, portBusy, expectedState, authURL, server, codeChan, errChan,
                   reqs, sent, selectReady, received, browser, exchange>>
    /\ UNCHANGED certVars
    /\ UNCHANGED libVars

\* case <-time.After(...): shutdownServer(server); return nil, "authentication timed out"
ReturnTimeout ==
    /\ pc = "shutdownTimeout"
    /\ shutdownServer("returned", Ret(<<>>, <<"authentication timed out">>))
    /\ UNCHANGED <<service, portBusy, expectedState, authURL, server, codeChan, errChan,
                   reqs, sent, selectReady, received, browser, exchange>>
    /\ UNCHANGED certVars
    /\ UNCHANGED libVars

\* case code = <-codeChan: falls out of the select to shutdownServer(server)
ShutdownAfterCode ==
    /\ pc = "shutdownCode"
    /\ shutdownServer("exchangeCode", NoRet)
    /\ UNCHANGED <<service, portBusy, expectedState, authURL, server, codeChan, errChan,
                   reqs, sent, selectReady, received, browser, exchange>>
    /\ UNCHANGED certVars
    /\ UNCHANGED libVars

\* Variant of ExchangeCode: a failed exchange is tried once more
ExchangeCodeMutRetry ==
    /\ pc = "exchangeCode"
    /\ \E resp \in Responses :
         LET r == exchangeCode(service, resp)
         IN  /\ exchange' = Append(exchange,
                    [req |-> exchangeRequest(service, Creds, received.val,
                                             defaultCallbackPort, serviceRequiresTLS(service)),
                     resp |-> resp])
             /\ result' = IF r.err # <<>>
                          THEN Ret(<<>>, <<"failed to exchange code: ">> \o r.err)
                          ELSE Ret(r.token, <<>>)
             /\ pc' = IF r.err # <<>> /\ exchange = <<>> THEN "exchangeCode" ELSE "returned"
    /\ UNCHANGED <<service, portBusy, expectedState, authURL, server, inShutdown, lpc,
                   codeChan, errChan, reqs, sent, selectReady, received, browser,
                   shutdownCalls>>
    /\ UNCHANGED certVars
    /\ UNCHANGED libVars

\* token, err := exchangeCode(service, creds, code, port, useTLS) and the return
ExchangeCode ==
    /\ pc = "exchangeCode"
    /\ \E resp \in Responses :
         LET r == exchangeCode(service, resp)
         IN  /\ exchange' = Append(exchange,
                    [req |-> exchangeRequest(service, Creds, received.val,
                                             defaultCallbackPort, serviceRequiresTLS(service)),
                     resp |-> resp])
             /\ result' = IF r.err # <<>>
                          THEN Ret(<<>>, <<"failed to exchange code: ">> \o r.err)
                          ELSE Ret(r.token, <<>>)
    /\ pc' = "returned"
    /\ UNCHANGED <<service, portBusy, expectedState, authURL, server, inShutdown, lpc,
                   codeChan, errChan, reqs, sent, selectReady, received, browser,
                   shutdownCalls>>
    /\ UNCHANGED certVars
    /\ UNCHANGED libVars

Flow ==
    \/ generateState
    \/ generateStateFails
    \/ BuildAuthURL
    \/ BuildAuthURLFails
    \/ startCallbackServer
    \/ startCallbackServerCertFails
    \/ PrintAuthURL
    \/ OpenBrowser
    \/ SelectReady
    \/ SelectBlock
    \/ Timeout
    \/ ListenAndServe
    \/ Listen
    \/ Serve
    \/ ListenError
    \/ \E i \in 1..Len(reqs) : HandlerSend(i)
    \/ ReturnErr
    \/ ReturnTimeout
    \/ ShutdownAfterCode
    \/ ExchangeCode

\* Any number of callbacks up to MaxRequests, one query for each handler
\* branch, sent by the browser of the machine to localhost
Next ==
    \/ Flow
    \/ Callback(FlowQueries(expectedState), MaxRequests, {"127.0.0.1"})

Spec == Init /\ [][Next]_vars


\* The steps of the goroutine that runs DoOAuthFlow. Timeout is the firing of
\* time.After(5 * time.Minute); ExchangeCode ends with the answer of the token
\* endpoint or with the 30-second timeout of the http.Client.
DoOAuthFlow ==
    \/ generateState
    \/ generateStateFails
    \/ BuildAuthURL
    \/ BuildAuthURLFails
    \/ startCallbackServer
    \/ startCallbackServerCertFails
    \/ PrintAuthURL
    \/ OpenBrowser
    \/ SelectReady
    \/ SelectBlock
    \/ Timeout
    \/ ReturnErr
    \/ ReturnTimeout
    \/ ShutdownAfterCode
    \/ ExchangeCode

\* The Go scheduler runs every runnable goroutine: the one of DoOAuthFlow, the
\* one started by startCallbackServer and the one of each request being served.
\* No fairness is assumed of the browser: a callback may never be sent.
Fairness ==
    /\ WF_vars(DoOAuthFlow)
    /\ WF_vars(ListenAndServe \/ Listen \/ Serve \/ ListenError)
    /\ \A i \in 1..MaxRequests : WF_vars(i <= Len(reqs) /\ HandlerSend(i))

SpecFair == Spec /\ Fairness

\* A single callback, with every combination of query parameters, sent to any
\* address of the machine
NextCallback ==
    \/ Flow
    \/ Callback(AllQueries, 1, LocalAddrs)

SpecCallback == Init /\ [][NextCallback]_vars

----------------------------------------------------------------------------
(* Package certs: the certificate authority on disk *)

\* authorities generated in one behaviour
MaxAuthorities == 2

\* runtime.GOOS: the three systems the code knows, and another one
GOOSes == {"darwin", "linux", "windows", "freebsd"}

SupportedGOOS == {"darwin", "linux", "windows"}

\* A file holding one PEM block, with the authority (key pair) it belongs to
PEMFile(type, ca) == [exists |-> TRUE, blocks |-> <<[Type |-> type, ca |-> ca]>>]

\* A file that was opened with O_TRUNC and not (or not fully) written
Truncated == [exists |-> TRUE, blocks |-> <<>>]

\* CAExists: os.Stat of both files; the error is that of GetCertsDir
CAExists(homeOK, key, cert) ==
    IF ~homeOK THEN [exists |-> FALSE, err |-> <<"failed to get home directory: ">>]
    ELSE [exists |-> key.exists /\ cert.exists, err |-> <<>>]

\* The points where GenerateCA can fail, "" for none
GenerateCAFailures ==
    {"", "MkdirAll", "GenerateKey", "rand.Int", "CreateCertificate", "OpenFile key",
     "MarshalECPrivateKey", "pem.Encode key", "OpenFile cert", "pem.Encode cert"}

GenerateCAError(fail) ==
    CASE fail = "" -> <<>>
      [] fail = "MkdirAll" -> <<"failed to create certs directory: ">>
      [] fail = "GenerateKey" -> <<"failed to generate CA private key: ">>
      [] fail = "rand.Int" -> <<"failed to generate serial number: ">>
      [] fail = "CreateCertificate" -> <<"failed to create CA certificate: ">>
      [] fail = "OpenFile key" -> <<"failed to create CA key file: ">>
      [] fail = "MarshalECPrivateKey" -> <<"failed to marshal CA private key: ">>
      [] fail = "pem.Encode key" -> <<"failed to write CA private key: ">>
      [] fail = "OpenFile cert" -> <<"failed to create CA cert file: ">>
      [] fail = "pem.Encode cert" -> <<"failed to write CA certificate: ">>

\* Variant of GenerateCA: the certificate file is left as it was
GenerateCAMutKeyOnly(homeOK, key, cert, fail, ca) ==
    IF ~homeOK THEN [key |-> key, cert |-> cert, err |-> <<"failed to get home directory: ">>]
    ELSE IF fail # "" THEN [key |-> key, cert |-> cert, err |-> GenerateCAError(fail)]
    ELSE [key |-> PEMFile("EC PRIVATE KEY", ca), cert |-> cert, err |-> <<>>]

\* GenerateCA with the key pair ca drawn by ecdsa.GenerateKey: the two files
\* afterwards and the error returned. Each file is opened with
\* O_WRONLY|O_CREATE|O_TRUNC and then written, the key file first.
GenerateCA(homeOK, key, cert, fail, ca) ==
    IF ~homeOK THEN [key |-> key, cert |-> cert, err |-> <<"failed to get home directory: ">>]
    ELSE IF fail \in {"MkdirAll", "GenerateKey", "rand.Int", "CreateCertificate", "OpenFile key"}
    THEN [key |-> key, cert |-> cert, err |-> GenerateCAError(fail)]
    ELSE IF fail \in {"MarshalECPrivateKey", "pem.Encode key"}
    THEN [key |-> Truncated, cert |-> cert, err |-> GenerateCAError(fail)]
    ELSE IF fail = "OpenFile cert"
    THEN [key |-> PEMFile("EC PRIVATE KEY", ca), cert |-> cert, err |-> GenerateCAError(fail)]
    ELSE IF fail = "pem.Encode cert"
    THEN [key |-> PEMFile("EC PRIVATE KEY", ca), cert |-> Truncated,
          err |-> GenerateCAError(fail)]
    ELSE [key |-> PEMFile("EC PRIVATE KEY", ca), cert |-> PEMFile("CERTIFICATE", ca),
          err |-> <<>>]

\* LoadCA: the first PEM block of each file, parsed; caCert and caKey are <<>>
\* for nil
LoadCA(homeOK, key, cert) ==
    LET failed(msg) == [caCert |-> <<>>, caKey |-> <<>>, err |-> <<msg>>]
    IN  IF ~homeOK THEN failed("failed to get home directory: ")
        ELSE IF ~key.exists THEN failed("failed to read CA private key: ")
        ELSE IF key.blocks = <<>> THEN failed("failed to decode CA private key PEM")
        ELSE IF key.blocks[1].Type # "EC PRIVATE KEY"
        THEN failed("failed to parse CA private key: ")
        ELSE IF ~cert.exists THEN failed("failed to read CA certificate: ")
        ELSE IF cert.blocks = <<>> THEN failed("failed to decode CA certificate PEM")
        ELSE IF cert.blocks[1].Type # "CERTIFICATE"
        THEN failed("failed to parse CA certificate: ")
        ELSE [caCert |-> <<cert.blocks[1]>>, caKey |-> <<key.blocks[1]>>, err |-> <<>>]

\* The points where GenerateServerCert can fail after LoadCA, "" for none
ServerCertFailures ==
    {"", "GenerateKey", "rand.Int", "CreateCertificate", "MarshalECPrivateKey",
     "X509KeyPair"}

\* Variant of GenerateServerCert: without a loadable authority the certificate
\* is self-signed
GenerateServerCertMutSelfSigned(homeOK, key, cert, fail) ==
    IF fail # "" THEN [cert |-> <<>>, err |-> <<"failed to generate server private key: ">>]
    ELSE IF LoadCA(homeOK, key, cert).err # <<>>
    THEN [cert |-> <<[Subject |-> "localhost", Issuer |-> 0, signedBy |-> 0]>>, err |-> <<>>]
    ELSE [cert |-> <<[Subject |-> "localhost", Issuer |-> cert.blocks[1].ca,
                      signedBy |-> key.blocks[1].ca]>>, err |-> <<>>]

\* GenerateServerCert: the tls.Certificate (<<>> for the zero value) and the
\* error. The leaf names the authority of the CA certificate as its issuer
\* and is signed with the CA key; x509.CreateCertificate refuses a private key
\* that does not match the public key of the parent certificate. The error of
\* tls.X509KeyPair is returned as it is.
GenerateServerCert(homeOK, key, cert, fail) ==
    LET ca == LoadCA(homeOK, key, cert)
        failed(msg) == [cert |-> <<>>, err |-> msg]
    IN  IF ca.err # <<>> THEN failed(<<"failed to load CA: ">> \o ca.err)
        ELSE IF fail = "GenerateKey" THEN failed(<<"failed to generate server private key: ">>)
        ELSE IF fail = "rand.Int" THEN failed(<<"failed to generate serial number: ">>)
        ELSE IF fail = "CreateCertificate" \/ ca.caKey[1].ca # ca.caCert[1].ca
        THEN failed(<<"failed to create server certificate: ">>)
        ELSE IF fail = "MarshalECPrivateKey"
        THEN failed(<<"failed to marshal server private key: ">>)
        ELSE IF fail = "X509KeyPair" THEN failed(<<"tls: ">>)
        ELSE [cert |-> <<[Subject |-> "localhost", Issuer |-> ca.caCert[1].ca,
                          signedBy |-> ca.caKey[1].ca]>>, err |-> <<>>]

\* The ways the commands InstallCA runs can fail, "" for none. On macOS and
\* Windows there is one command and every failure is its failure. On Linux:
\* "copy" is both sudo cp failing, "update" is update-ca-certificates failing
\* after the Debian copy, "debian copy" is the Debian copy failing and the
\* RHEL one and update-ca-trust working, "update-ca-trust" is the Debian copy
\* failing, the RHEL copy working and update-ca-trust failing
InstallCAFailures == {"", "copy", "update", "debian copy", "update-ca-trust"}

\* IsCAInstalled: the certificate named "applink Local CA" (on Linux the file
\* applink-ca.crt) is in the trust store; false on any other system
IsCAInstalled(os, trust) == os \in SupportedGOOS /\ trust.exists

\* InstallCA: the trust store afterwards and the error. The commands copy the
\* CA certificate file, so they fail when it is missing; security and certutil
\* also refuse a file that holds no certificate, cp does not.
InstallCA(homeOK, os, cert, trust, fail) ==
    LET failed(msg) == [trust |-> trust, err |-> <<msg>>]
    IN  IF ~homeOK THEN failed("failed to get home directory: ")
        ELSE IF os = "darwin"
        THEN IF fail # "" \/ ~cert.exists \/ cert.blocks = <<>>
             THEN failed("failed to install CA on macOS: ")
             ELSE [trust |-> cert, err |-> <<>>]
        ELSE IF os = "linux"
        THEN IF fail = "copy" \/ ~cert.exists
             THEN failed("failed to copy CA certificate: ")
             ELSE IF fail = "update-ca-trust"
             THEN [trust |-> cert, err |-> <<"failed to update CA trust: ">>]
             ELSE IF fail = "update"
             THEN [trust |-> cert, err |-> <<"failed to update CA certificates: ">>]
             ELSE [trust |-> cert, err |-> <<>>]
        ELSE IF os = "windows"
        THEN IF fail # "" \/ ~cert.exists \/ cert.blocks = <<>>
             THEN failed("failed to install CA on Windows: ")
             ELSE [trust |-> cert, err |-> <<>>]
        ELSE failed("unsupported operating system: ")

\* UninstallCA: the trust store afterwards and the error; fail says that the
\* command it runs fails. security and certutil report it, and security also
\* fails when no certificate of that name is there; on Linux the results of
\* sudo rm -f and of the two updates are ignored, so a failed removal leaves
\* the file and still returns nil.
UninstallCA(os, trust, fail) ==
    LET failed(msg) == [trust |-> trust, err |-> <<msg>>]
        removed == [trust |-> NoFile, err |-> <<>>]
    IN  IF os = "darwin"
        THEN IF fail \/ ~trust.exists
             THEN failed("failed to uninstall CA on macOS: ")
             ELSE removed
        ELSE IF os = "linux"
        THEN IF fail THEN [trust |-> trust, err |-> <<>>] ELSE removed
        ELSE IF os = "windows"
        THEN IF fail THEN failed("failed to uninstall CA on Windows: ")
             ELSE removed
        ELSE failed("unsupported operating system: ")

----------------------------------------------------------------------------
(* The commands: applink init, and the certificate setup of applink login *)

\* strings.ToLower on the characters the answers are written with
ToLower(s) ==
    [i \in 1..Len(s) |->
        CASE s[i] = "Y" -> "y" [] s[i] = "E" -> "e" [] s[i] = "S" -> "s"
          [] s[i] = "N" -> "n" [] s[i] = "O" -> "o" [] OTHER -> s[i]]

IsSpace(c) == c \in {" ", "\n", "\t", "\r"}

\* strings.TrimSpace
RECURSIVE TrimLeft(_)
TrimLeft(s) == IF s # <<>> /\ IsSpace(Head(s)) THEN TrimLeft(Tail(s)) ELSE s

RECURSIVE TrimRight(_)
TrimRight(s) ==
    IF s # <<>> /\ IsSpace(s[Len(s)]) THEN TrimRight(SubSeq(s, 1, Len(s) - 1)) ELSE s

TrimSpace(s) == TrimRight(TrimLeft(s))

\* The lines the user may type at a [Y/n] prompt, as reader.ReadString('\n')
\* returns them
Answers ==
    { <<"\n">>, <<"y", "\n">>, <<"Y", "\n">>, <<"y", "e", "s", "\n">>,
      <<" ", "Y", "e", "s", " ", "\n">>, <<"n", "\n">>, <<"N", "O", "\n">>,
      <<"y", "e", "\n">> }

\* response != "" && response != "y" && response != "yes", negated
Accepted(response) ==
    LET r == TrimSpace(ToLower(response))
    IN  r = <<>> \/ r = <<"y">> \/ r = <<"y", "e", "s">>

\* printManualInstructions of runInit: the commands for the system
printManualInstructions(os) ==
    CASE os = "darwin" -> <<"security add-trusted-cert -r trustRoot -k login.keychain">>
      [] os = "linux" -> <<"sudo cp /usr/local/share/ca-certificates/applink-ca.crt",
                           "sudo update-ca-certificates",
                           "sudo cp /etc/pki/ca-trust/source/anchors/applink-ca.crt",
                           "sudo update-ca-trust">>
      [] os = "windows" -> <<"certutil -addstore -user Root">>
      [] OTHER -> <<>>

\* The switch of ensureCertsInitialized that prints the commands
loginManualInstructions(os) ==
    CASE os = "darwin" -> <<"security add-trusted-cert -r trustRoot -k login.keychain">>
      [] os = "linux" -> <<"sudo cp /usr/local/share/ca-certificates/applink-ca.crt",
                           "sudo update-ca-certificates">>
      [] os = "windows" -> <<"certutil -addstore -user Root">>
      [] OTHER -> <<>>

\* Variant of runInit's test: the CA is generated on every run
needsGenerateMutAlways(exists, force) == TRUE

\* runInit: if !exists || forceInit
needsGenerate(exists, force) == ~exists \/ force

\* Variant: the failure of InstallCA is returned
installFailedMutFatal(cmd, os, err) ==
    [ret |-> <<"failed to install CA: ">> \o err, out |-> <<>>]

\* What runInit and ensureCertsInitialized do when InstallCA fails: the
\* warning, the manual instructions, and a nil return
installFailed(cmd, os, err) ==
    IF cmd = "init"
    THEN [ret |-> <<>>,
          out |-> <<"Failed to install CA: ", "You can install it manually:">>
                  \o printManualInstructions(os)]
    ELSE [ret |-> <<>>,
          out |-> <<"Warning: Failed to install CA: ", "You can install it manually:">>
                  \o loginManualInstructions(os)
                  \o <<"Continuing with browser warning...">>]

\* What a command leaves behind: the files, the trust store, and its record
Outcome(key, cert, trust, rec) == [key |-> key, cert |-> cert, trust |-> trust, rec |-> rec]

\* runInit with the --force flag and the inputs of its run: whether the home
\* directory is known, where GenerateCA fails, whether a line can be read from
\* stdin, the line, where InstallCA fails
runInit(force, homeOK, gfail, readOK, answer, ifail) ==
    LET ex == CAExists(homeOK, keyFile, certFile)
        rec == [NoCommand EXCEPT !.cmd = "init", !.force = force, !.caExists = ex.exists,
                                 !.out = <<"Initializing applink">>]
        gen == needsGenerate(ex.exists, force)
        g == IF gen THEN GenerateCA(homeOK, keyFile, certFile, gfail, serial + 1)
             ELSE [key |-> keyFile, cert |-> certFile, err |-> <<>>]
        rec2 == IF gen
                THEN [rec EXCEPT !.generate = IF g.err = <<>> THEN "ok" ELSE gfail,
                                 !.out = @ \o <<"CA certificate generated">>]
                ELSE [rec EXCEPT !.out = @ \o <<"CA certificate exists but is not installed">>]
        question == "Install the CA certificate now? [Y/n] "
    IN  IF ex.err # <<>>
        THEN Outcome(keyFile, certFile, trustStore,
                     [rec EXCEPT !.ret = <<"failed to check CA status: ">> \o ex.err])
        ELSE IF ex.exists /\ ~force /\ IsCAInstalled(goos, trustStore)
        THEN Outcome(keyFile, certFile, trustStore,
                     [rec EXCEPT !.out = @ \o <<"applink is already initialized">>])
        ELSE IF g.err # <<>>
        THEN Outcome(g.key, g.cert, trustStore,
                     [rec EXCEPT !.generate = IF homeOK THEN gfail ELSE "GetCertsDir",
                                 !.ret = <<"failed to generate CA: ">> \o g.err])
        ELSE IF ~readOK
        THEN Outcome(g.key, g.cert, trustStore,
                     [rec2 EXCEPT !.ret = <<"failed to read response: ">>,
                                  !.out = @ \o <<question>>])
        ELSE IF ~Accepted(answer)
        THEN Outcome(g.key, g.cert, trustStore,
                     [rec2 EXCEPT !.out = @ \o <<question, "Manual installation:">>
                                           \o printManualInstructions(goos)])
        ELSE LET i == InstallCA(homeOK, goos, g.cert, trustStore, ifail)
             IN  IF i.err # <<>>
                 THEN LET f == installFailed("init", goos, i.err)
                      IN  Outcome(g.key, g.cert, i.trust,
                                  [rec2 EXCEPT !.install = "failed", !.ret = f.ret,
                                               !.out = @ \o <<question>> \o f.out])
                 ELSE Outcome(g.key, g.cert, i.trust,
                              [rec2 EXCEPT !.install = "ok",
                                           !.out = @ \o <<question, "CA certificate installed",
                                                           "applink is ready!">>])

\* ensureCertsInitialized(serviceName) with the inputs of its run
ensureCertsInitialized(serviceName, homeOK, gfail, readOK, answer, ifail) ==
    LET ex == CAExists(homeOK, keyFile, certFile)
        rec == [NoCommand EXCEPT !.cmd = "login", !.service = serviceName]
        recS == [rec EXCEPT !.caExists = ex.exists, !.out = <<"First-time setup">>]
        gen == ~ex.exists
        g == IF gen THEN GenerateCA(homeOK, keyFile, certFile, gfail, serial + 1)
             ELSE [key |-> keyFile, cert |-> certFile, err |-> <<>>]
        rec2 == IF gen
                THEN [recS EXCEPT !.generate = "ok",
                                  !.out = @ \o <<"Continue? [Y/n] ",
                                                 "Certificate authority generated">>]
                ELSE [recS EXCEPT !.out = @ \o <<"Continue? [Y/n] ">>]
    IN  IF serviceName # "slack"
        THEN Outcome(keyFile, certFile, trustStore, rec)
        ELSE IF ex.exists /\ IsCAInstalled(goos, trustStore)
        THEN Outcome(keyFile, certFile, trustStore, [rec EXCEPT !.caExists = TRUE])
        ELSE IF ~readOK
        THEN Outcome(keyFile, certFile, trustStore,
                     [recS EXCEPT !.ret = <<"failed to read response: ">>,
                                  !.out = @ \o <<"Continue? [Y/n] ">>])
        ELSE IF ~Accepted(answer)
        THEN Outcome(keyFile, certFile, trustStore,
                     [recS EXCEPT !.out = @ \o <<"Continue? [Y/n] ",
                                                 "Certificate setup skipped.">>])
        ELSE IF g.err # <<>>
        THEN Outcome(g.key, g.cert, trustStore,
                     [recS EXCEPT !.generate = IF homeOK THEN gfail ELSE "GetCertsDir",
                                  !.out = @ \o <<"Continue? [Y/n] ",
                                                 "Warning: Failed to generate CA: ",
                                                 "Continuing with self-signed certificate">>])
        ELSE LET i == InstallCA(homeOK, goos, g.cert, trustStore, ifail)
             IN  IF i.err # <<>>
                 THEN LET f == installFailed("login", goos, i.err)
                      IN  Outcome(g.key, g.cert, i.trust,
                                  [rec2 EXCEPT !.install = "failed", !.ret = f.ret,
                                               !.out = @ \o f.out])
                 ELSE Outcome(g.key, g.cert, i.trust,
                              [rec2 EXCEPT !.install = "ok",
                                           !.out = @ \o <<"Certificate authority installed">>])

\* The inputs of one run of a command: whether the home directory is known,
\* where GenerateCA fails, whether a line can be read from stdin, the line,
\* where InstallCA fails. An input that cannot be read after an earlier failure
\* is left at its default.
Runs ==
    { r \in [homeOK : BOOLEAN, gfail : GenerateCAFailures, readOK : BOOLEAN,
              answer : Answers, ifail : InstallCAFailures] :
        /\ ~r.homeOK => (r.gfail = "" /\ r.ifail = "")
        /\ r.gfail # "" => (r.readOK /\ r.answer = <<"\n">> /\ r.ifail = "")
        /\ ~r.readOK => (r.answer = <<"\n">> /\ r.ifail = "")
        /\ ~Accepted(r.answer) => r.ifail = "" }

\* Each command is a process of its own. The flow a login goes on to is that
\* of Spec; it does not touch the files or the trust store.
CommandMayStart == pc \in {"idle", "returned", "generateState"}

\* The state of auth of a fresh process, DoOAuthFlow at startPc
FreshFlow(svc, busy, startPc, ret) ==
    /\ service' = svc
    /\ portBusy' = busy
    /\ pc' = startPc
    /\ expectedState' = <<>>
    /\ authURL' = <<>>
    /\ server' = "none"
    /\ inShutdown' = FALSE
    /\ lpc' = "none"
    /\ codeChan' = <<>>
    /\ errChan' = <<>>
    /\ reqs' = <<>>
    /\ sent' = <<>>
    /\ selectReady' = {}
    /\ received' = NotReceived
    /\ browser' = [printed |-> <<>>, opened |-> FALSE]
    /\ shutdownCalls' = 0
    /\ exchange' = <<>>
    /\ result' = ret

\* The files, the trust store and the record a command leaves; GenerateCA
\* draws a new key pair at most MaxAuthorities times
Leave(o) ==
    /\ o.rec.generate # "" => serial < MaxAuthorities
    /\ keyFile' = o.key
    /\ certFile' = o.cert
    /\ trustStore' = o.trust
    /\ serial' = IF o.rec.generate \in {"ok", "OpenFile cert", "pem.Encode cert"}
                 THEN serial + 1 ELSE serial
    /\ cli' = o.rec
    /\ leaf' = NoLeaf
    /\ UNCHANGED goos

\* applink init [--force]
RunInit ==
    /\ CommandMayStart
    /\ \E force \in BOOLEAN, r \in Runs :
         Leave(runInit(force, r.homeOK, r.gfail, r.readOK, r.answer, r.ifail))
    /\ FreshFlow("", FALSE, "idle", NoRet)
    /\ UNCHANGED libVars

\* applink login <service>, from the call of ensureCertsInitialized in
\* doOAuthLogin: its error is returned, else DoOAuthFlow is called (pc is at
\* its first statement)
Login ==
    /\ CommandMayStart
    /\ \E svc \in Services, busy \in BOOLEAN, r \in Runs :
         LET o == ensureCertsInitialized(svc, r.homeOK, r.gfail, r.readOK, r.answer,
                                         r.ifail)
         IN  /\ Leave(o)
             /\ IF o.rec.ret # <<>>
                THEN FreshFlow(svc, busy, "returned", Ret(<<>>, o.rec.ret))
                ELSE FreshFlow(svc, busy, "generateState", NoRet)
    /\ UNCHANGED libVars

\* A call of certs.GenerateServerCert
CallGenerateServerCert ==
    /\ CommandMayStart
    /\ \E homeOK \in BOOLEAN, fail \in ServerCertFailures :
         leaf' = GenerateServerCert(homeOK, keyFile, certFile, fail)
    /\ cli' = [NoCommand EXCEPT !.cmd = "GenerateServerCert"]
    /\ FreshFlow("", FALSE, "idle", NoRet)
    /\ UNCHANGED <<goos, keyFile, certFile, trustStore, serial>>
    /\ UNCHANGED libVars

\* A caller of the package removes the authority from the trust store
CallUninstallCA ==
    /\ CommandMayStart
    /\ \E fail \in BOOLEAN :
         LET u == UninstallCA(goos, trustStore, fail)
         IN  /\ trustStore' = u.trust
             /\ cli' = [NoCommand EXCEPT !.cmd = "UninstallCA", !.ret = u.err]
    /\ FreshFlow("", FALSE, "idle", NoRet)
    /\ UNCHANGED <<goos, keyFile, certFile, serial, leaf>>
    /\ UNCHANGED libVars

\* A fresh machine: no authority on disk, none in the trust store
InitCerts ==
    /\ goos \in GOOSes
    /\ keyFile = NoFile
    /\ certFile = NoFile
    /\ trustStore = NoFile
    /\ serial = 0
    /\ cli = NoCommand
    /\ leaf = NoLeaf
    /\ clock = 1
    /\ parse = NoParse
    /\ keychain = EmptyKeychain
    /\ store = NoStore
    /\ cursor = NoCursorConfig
    /\ service = ""
    /\ portBusy = FALSE
    /\ pc = "idle"
    /\ expectedState = <<>>
    /\ authURL = <<>>
    /\ server = "none"
    /\ inShutdown = FALSE
    /\ lpc = "none"
    /\ codeChan = <<>>
    /\ errChan = <<>>
    /\ reqs = <<>>
    /\ sent = <<>>
    /\ selectReady = {}
    /\ received = NotReceived
    /\ browser = [printed |-> <<>>, opened |-> FALSE]
    /\ shutdownCalls = 0
    /\ exchange = <<>>
    /\ result = NoRet

\* Commands one after the other
NextCerts ==
    \/ RunInit
    \/ Login
    \/ CallGenerateServerCert
    \/ CallUninstallCA

SpecCerts == InitCerts /\ [][NextCerts]_vars

----------------------------------------------------------------------------
(* Package storage: the system keychain, client credentials and tokens *)

\* An error value: its dynamic type, its message, and the error it wraps
Error(type, msg, wraps) == [type |-> type, msg |-> msg, wraps |-> wraps]

\* keyring.ErrNotFound, and the error of a keychain backend that cannot be used
ErrNotFound == Error("keyring.ErrNotFound", <<"secret not found in keyring">>, <<>>)
ErrUnavailable == Error("error", <<"keyring backend unavailable">>, <<>>)

\* keyring.Get, keyring.Set, keyring.Delete of go-keyring: available says
\* whether the backend can be used
keyringGet(kc, available, svc, user) ==
    IF ~available THEN [data |-> <<>>, err |-> <<ErrUnavailable>>]
    ELSE IF kc[<<svc, user>>] = <<>> THEN [data |-> <<>>, err |-> <<ErrNotFound>>]
    ELSE [data |-> kc[<<svc, user>>][1], err |-> <<>>]

keyringSet(kc, available, svc, user, data) ==
    IF ~available THEN [kc |-> kc, err |-> <<ErrUnavailable>>]
    ELSE [kc |-> [kc EXCEPT ![<<svc, user>>] = <<data>>], err |-> <<>>]

keyringDelete(kc, available, svc, user) ==
    IF ~available THEN [kc |-> kc, err |-> <<ErrUnavailable>>]
    ELSE IF kc[<<svc, user>>] = <<>> THEN [kc |-> kc, err |-> <<ErrNotFound>>]
    ELSE [kc |-> [kc EXCEPT ![<<svc, user>>] = <<>>], err |-> <<>>]

\* strings.ToUpper of a service identifier
ToUpper(user) ==
    CASE user = "slack" -> "SLACK"
      [] user = "notion" -> "NOTION"
      [] user = "linear" -> "LINEAR"
      [] user = "honeycomb" -> "HONEYCOMB"
      [] user = "jira" -> "JIRA"

\* The names of the two environment variables of a service
EnvClientID(user) == <<"APPLINK_", ToUpper(user), "_", "CLIENT_ID">>
EnvClientSecret(user) == <<"APPLINK_", ToUpper(user), "_", "CLIENT_SECRET">>

\* os.Getenv: the empty string for a variable that is not set
Getenv(env, name) == IF name \in DOMAIN env THEN env[name] ELSE <<>>

\* json.Marshal and json.Unmarshal of Credentials: the keys are the json tags
MarshalCredentials(creds) ==
    [json |-> TRUE, client_id |-> creds.ClientID, client_secret |-> creds.ClientSecret]
UnmarshalCredentials(data) ==
    IF data.json
    THEN [creds |-> <<[ClientID |-> data.client_id, ClientSecret |-> data.client_secret]>>,
          err |-> <<>>]
    ELSE [creds |-> <<>>, err |-> <<Error("*json.SyntaxError", <<"invalid character">>, <<>>)>>]

\* json.Marshal and json.Unmarshal of Token
MarshalToken(token) ==
    [json |-> TRUE, access_token |-> token.AccessToken, refresh_token |-> token.RefreshToken,
     token_type |-> token.TokenType, expires_at |-> token.ExpiresAt, scope |-> token.Scope,
     team_id |-> token.TeamID]
UnmarshalToken(data) ==
    IF data.json
    THEN [token |-> <<[AccessToken |-> data.access_token,
                       RefreshToken |-> data.refresh_token,
                       TokenType |-> data.token_type, Scope |-> data.scope,
                       TeamID |-> data.team_id, ExpiresAt |-> data.expires_at]>>,
          err |-> <<>>]
    ELSE [token |-> <<>>, err |-> <<Error("*json.SyntaxError", <<"invalid character">>, <<>>)>>]

\* &KeychainError{Err: err, Service: service}
KeychainError(err, user) ==
    Error("*storage.KeychainError", <<"keychain error: ">> \o err.msg, <<err>>)

\* IsKeychainError: the type assertion err.(*KeychainError)
IsKeychainError(err) == err # <<>> /\ err[1].type = "*storage.KeychainError"

\* keychainHelpMessage
keychainHelpMessage(user) ==
    <<"System keychain is not available.", "Use environment variables instead:",
      "export ", EnvClientID(user), "export ", EnvClientSecret(user),
      "Then run: applink login ", user>>

\* getCredentialsFromKeychain
getCredentialsFromKeychain(kc, available, user) ==
    LET got == keyringGet(kc, available, credentialsPrefix, user)
    IN  IF got.err # <<>>
        THEN IF got.err[1] = ErrNotFound
             THEN [creds |-> <<>>, err |-> <<>>]
             ELSE [creds |-> <<>>, err |-> <<KeychainError(got.err[1], user)>>]
        ELSE UnmarshalCredentials(got.data)

\* Variant of GetCredentials: the keychain is asked first
GetCredentialsMutKeychainFirst(env, kc, available, user) ==
    LET clientID == Getenv(env, EnvClientID(user))
        clientSecret == Getenv(env, EnvClientSecret(user))
        stored == getCredentialsFromKeychain(kc, available, user)
    IN  IF stored.err # <<>> \/ stored.creds # <<>> THEN stored
        ELSE IF clientID # <<>> /\ clientSecret # <<>>
        THEN [creds |-> <<[ClientID |-> clientID, ClientSecret |-> clientSecret]>>,
              err |-> <<>>]
        ELSE stored

\* GetCredentials: environment variables, then the keychain
GetCredentials(env, kc, available, user) ==
    LET clientID == Getenv(env, EnvClientID(user))
        clientSecret == Getenv(env, EnvClientSecret(user))
    IN  IF clientID # <<>> /\ clientSecret # <<>>
        THEN [creds |-> <<[ClientID |-> clientID, ClientSecret |-> clientSecret]>>,
              err |-> <<>>]
        ELSE getCredentialsFromKeychain(kc, available, user)

\* StoreCredentials
StoreCredentials(kc, available, user, creds) ==
    LET set == keyringSet(kc, available, credentialsPrefix, user,
                          MarshalCredentials(creds))
    IN  IF set.err # <<>>
        THEN [kc |-> set.kc,
              err |-> <<Error("*fmt.wrapError",
                              <<"failed to store credentials in keychain: ">>
                                 \o set.err[1].msg \o keychainHelpMessage(user),
                              set.err)>>]
        ELSE [kc |-> set.kc, err |-> <<>>]

\* DeleteCredentials
DeleteCredentials(kc, available, user) ==
    LET del == keyringDelete(kc, available, credentialsPrefix, user)
    IN  IF del.err # <<>> /\ del.err[1] = ErrNotFound
        THEN [kc |-> del.kc, err |-> <<>>]
        ELSE del

\* HasCredentials
HasCredentials(env, kc, available, user) ==
    GetCredentials(env, kc, available, user).creds # <<>>

\* StoreToken
StoreToken(kc, available, user, token) ==
    keyringSet(kc, available, keyringServiceName, user, MarshalToken(token))

\* GetToken
GetToken(kc, available, user) ==
    LET got == keyringGet(kc, available, keyringServiceName, user)
    IN  IF got.err # <<>>
        THEN IF got.err[1] = ErrNotFound
             THEN [token |-> <<>>, err |-> <<>>]
             ELSE [token |-> <<>>, err |-> got.err]
        ELSE UnmarshalToken(got.data)

\* DeleteToken
DeleteToken(kc, available, user) ==
    LET del == keyringDelete(kc, available, keyringServiceName, user)
    IN  IF del.err # <<>> /\ del.err[1] = ErrNotFound
        THEN [kc |-> del.kc, err |-> <<>>]
        ELSE del

----------------------------------------------------------------------------
(* The commands that use the keychain: setup, login, token, logout *)

\* The names a command is given: an OAuth service, the API-key service and a
\* name that is not registered
ServiceNames == {"slack", "honeycomb", "jira"}

\* config.GetService: the error for a name that is not in the registry
GetService(name) ==
    IF name \in serviceRegistry THEN <<>>
    ELSE <<Error("*errors.errorString", <<"unknown service: ", name>>, <<>>)>>

\* service.AuthType of the registry
AuthTypeOf(name) == IF name = "honeycomb" THEN "apikey" ELSE "oauth"

\* fmt.Errorf(prefix + ": %w", err)
Wrap(prefix, err) == <<Error("*fmt.wrapError", <<prefix>> \o err[1].msg, err)>>

\* An environment with no variable set
NoEnvironment == [v \in {} |-> <<>>]

\* An environment in which the two variables of a service are set
Setenv(user, id, secret) ==
    [v \in {EnvClientID(user), EnvClientSecret(user)} |->
        IF v = EnvClientID(user) THEN id ELSE secret]

\* The environments of a command run for name: no variable set, both
\* variables of the service set, its secret set to the empty string, or only
\* the variables of another service set
Environments(name) ==
    { NoEnvironment,
      Setenv(name, <<"env-id">>, <<"env-secret">>),
      Setenv(name, <<"env-id">>, <<>>),
      Setenv(IF name = "slack" THEN "notion" ELSE "slack", <<"env-id">>, <<"env-secret">>) }

\* What the user types at the prompts of applink setup
Typed ==
    { [ClientID |-> <<"id-1">>, ClientSecret |-> <<"secret-1">>],
      [ClientID |-> <<>>, ClientSecret |-> <<"secret-1">>] }

\* The tokens a login obtains
Tokens ==
    { [ZeroToken EXCEPT !.AccessToken = <<"tok-1">>],
      [ZeroToken EXCEPT !.AccessToken = <<"tok-2">>, !.TeamID = <<"T1">>] }

\* The error of a read of standard input that ends before the line does
EOF == Error("*errors.errorString", <<"EOF">>, <<>>)

\* promptCredentials: the two values read, trimmed; an empty one is an error.
\* fail names the read that fails, "" for none
promptCredentials(typed, fail) ==
    IF fail = "client ID"
    THEN [creds |-> <<>>, err |-> Wrap("failed to read client ID: ", <<EOF>>)]
    ELSE IF typed.ClientID = <<>>
    THEN [creds |-> <<>>,
          err |-> <<Error("*errors.errorString", <<"client ID cannot be empty">>, <<>>)>>]
    ELSE IF fail = "client secret"
    THEN [creds |-> <<>>, err |-> Wrap("failed to read client secret: ", <<EOF>>)]
    ELSE IF typed.ClientSecret = <<>>
    THEN [creds |-> <<>>,
          err |-> <<Error("*errors.errorString", <<"client secret cannot be empty">>, <<>>)>>]
    ELSE [creds |-> <<typed>>, err |-> <<>>]

\* runSetup: applink setup <service>
runSetup(env, kc, available, name, typed, fail) ==
    LET rec == Command("setup", name, env, <<available>>)
        prompted == promptCredentials(typed, fail)
        stored == StoreCredentials(kc, available, name, prompted.creds[1])
    IN  IF GetService(name) # <<>>
        THEN [kc |-> kc, rec |-> [rec EXCEPT !.branch = "unknown service",
                                              !.ret = GetService(name)]]
        ELSE IF prompted.err # <<>>
        THEN [kc |-> kc, rec |-> [rec EXCEPT !.branch = "prompt", !.ret = prompted.err]]
        ELSE IF stored.err # <<>>
        THEN IF IsKeychainError(stored.err)
             THEN [kc |-> stored.kc,
                   rec |-> [rec EXCEPT !.branch = "keychain error", !.ret = stored.err]]
             ELSE [kc |-> stored.kc,
                   rec |-> [rec EXCEPT !.branch = "other error",
                                       !.ret = Wrap("failed to store credentials: ",
                                                    stored.err)]]
        ELSE [kc |-> stored.kc,
              rec |-> [rec EXCEPT !.branch = "saved", !.creds = prompted.creds,
                                  !.out = <<"Credentials saved to keychain for ", name>>]]

\* PromptAPIKey: the trimmed key as a token of type "apikey"; a failed read
\* and an empty key are errors
PromptAPIKey(key, readOK) ==
    IF ~readOK
    THEN [token |-> <<>>, err |-> Wrap("failed to read API key: ", <<EOF>>)]
    ELSE IF key = <<>>
    THEN [token |-> <<>>,
          err |-> <<Error("*errors.errorString", <<"API key cannot be empty">>, <<>>)>>]
    ELSE [token |-> <<[ZeroToken EXCEPT !.AccessToken = key, !.TokenType = <<"apikey">>]>>,
          err |-> <<>>]

\* doOAuthLogin up to the call of DoOAuthFlow: the credentials, or the error
doOAuthLoginCredentials(env, kc, available, name) ==
    LET got == GetCredentials(env, kc, available, name)
    IN  IF got.err # <<>>
        THEN IF IsKeychainError(got.err)
             THEN [creds |-> <<>>, branch |-> "keychain error", err |-> got.err]
             ELSE [creds |-> <<>>, branch |-> "other error",
                   err |-> Wrap("failed to get credentials: ", got.err)]
        ELSE IF got.creds = <<>>
        THEN [creds |-> <<>>, branch |-> "not found",
              err |-> <<Error("*cli.credentialsNotFoundError",
                              <<"No OAuth credentials found for ", name,
                                "applink setup ", name, "export ", EnvClientID(name),
                                "export ", EnvClientSecret(name)>>, <<>>)>>]
        ELSE [creds |-> got.creds, branch |-> "flow", err |-> <<>>]

\* Variant of runLogin: a failed authentication removes the stored token
runLoginMutClearOnFailure(env, kc, available, name, flow, prompt, availableAfter) ==
    LET rec == Command("login", name, env, <<available, availableAfter>>)
        c == doOAuthLoginCredentials(env, kc, available, name)
        stored == StoreToken(kc, availableAfter, name, flow[1])
        k == PromptAPIKey(prompt.key, prompt.readOK)
        storedKey == StoreToken(kc, availableAfter, name, k.token[1])
    IN  IF GetService(name) # <<>>
        THEN [kc |-> kc, rec |-> [rec EXCEPT !.branch = "unknown service",
                                              !.ret = GetService(name)]]
        ELSE IF AuthTypeOf(name) = "apikey"
        THEN IF k.err # <<>>
             THEN [kc |-> DeleteToken(kc, availableAfter, name).kc,
                   rec |-> [rec EXCEPT !.branch = "prompt failed",
                                       !.ret = Wrap("authentication failed: ", k.err)]]
             ELSE IF storedKey.err # <<>>
             THEN [kc |-> storedKey.kc,
                   rec |-> [rec EXCEPT !.branch = "store failed",
                                       !.ret = Wrap("failed to store token: ",
                                                    storedKey.err)]]
             ELSE [kc |-> storedKey.kc,
                   rec |-> [rec EXCEPT !.branch = "stored", !.token = k.token,
                                       !.out = <<"Successfully authenticated with ",
                                                 name>>]]
        ELSE IF AuthTypeOf(name) # "oauth"
        THEN [kc |-> kc,
              rec |-> [rec EXCEPT
                         !.branch = "unsupported auth type",
                         !.ret = <<Error("*errors.errorString",
                                         <<"unsupported auth type: ", AuthTypeOf(name)>>,
                                         <<>>)>>]]
        ELSE IF c.err # <<>>
        THEN [kc |-> kc, rec |-> [rec EXCEPT !.branch = c.branch,
                                              !.ret = Wrap("authentication failed: ", c.err)]]
        ELSE IF flow = <<>>
        THEN [kc |-> DeleteToken(kc, availableAfter, name).kc,
              rec |-> [rec EXCEPT
                         !.branch = "flow failed", !.creds = c.creds,
                         !.ret = Wrap("authentication failed: ",
                                      <<Error("*fmt.wrapError",
                                              <<"failed to exchange code: ">>, <<>>)>>)]]
        ELSE IF stored.err # <<>>
        THEN [kc |-> stored.kc,
              rec |-> [rec EXCEPT !.branch = "store failed", !.creds = c.creds,
                                  !.ret = Wrap("failed to store token: ", stored.err)]]
        ELSE [kc |-> stored.kc,
              rec |-> [rec EXCEPT !.branch = "stored", !.creds = c.creds, !.token = flow,
                                  !.out = <<"Successfully authenticated with ", name>>]]

\* runLogin: applink login <service>. flow is what DoOAuthFlow returns when it
\* is called: a token, or <<>> with an error; prompt is what PromptAPIKey is
\* given when it is called
runLogin(env, kc, available, name, flow, prompt, availableAfter) ==
    LET rec == Command("login", name, env, <<available, availableAfter>>)
        c == doOAuthLoginCredentials(env, kc, available, name)
        stored == StoreToken(kc, availableAfter, name, flow[1])
        k == PromptAPIKey(prompt.key, prompt.readOK)
        storedKey == StoreToken(kc, availableAfter, name, k.token[1])
    IN  IF GetService(name) # <<>>
        THEN [kc |-> kc, rec |-> [rec EXCEPT !.branch = "unknown service",
                                              !.ret = GetService(name)]]
        ELSE IF AuthTypeOf(name) = "apikey"
        THEN IF k.err # <<>>
             THEN [kc |-> kc,
                   rec |-> [rec EXCEPT !.branch = "prompt failed",
                                       !.ret = Wrap("authentication failed: ", k.err)]]
             ELSE IF storedKey.err # <<>>
             THEN [kc |-> storedKey.kc,
                   rec |-> [rec EXCEPT !.branch = "store failed",
                                       !.ret = Wrap("failed to store token: ",
                                                    storedKey.err)]]
             ELSE [kc |-> storedKey.kc,
                   rec |-> [rec EXCEPT !.branch = "stored", !.token = k.token,
                                       !.out = <<"Successfully authenticated with ",
                                                 name>>]]
        ELSE IF AuthTypeOf(name) # "oauth"
        THEN [kc |-> kc,
              rec |-> [rec EXCEPT
                         !.branch = "unsupported auth type",
                         !.ret = <<Error("*errors.errorString",
                                         <<"unsupported auth type: ", AuthTypeOf(name)>>,
                                         <<>>)>>]]
        ELSE IF c.err # <<>>
        THEN [kc |-> kc, rec |-> [rec EXCEPT !.branch = c.branch,
                                              !.ret = Wrap("authentication failed: ", c.err)]]
        ELSE IF flow = <<>>
        THEN [kc |-> kc,
              rec |-> [rec EXCEPT
                         !.branch = "flow failed", !.creds = c.creds,
                         !.ret = Wrap("authentication failed: ",
                                      <<Error("*fmt.wrapError",
                                              <<"failed to exchange code: ">>, <<>>)>>)]]
        ELSE IF stored.err # <<>>
        THEN [kc |-> stored.kc,
              rec |-> [rec EXCEPT !.branch = "store failed", !.creds = c.creds,
                                  !.ret = Wrap("failed to store token: ", stored.err)]]
        ELSE [kc |-> stored.kc,
              rec |-> [rec EXCEPT !.branch = "stored", !.creds = c.creds, !.token = flow,
                                  !.out = <<"Successfully authenticated with ", name>>]]

\* runToken: applink token <service>
runToken(env, kc, available, name) ==
    LET rec == Command("token", name, env, <<available>>)
        got == GetToken(kc, available, name)
    IN  IF GetService(name) # <<>>
        THEN [kc |-> kc, rec |-> [rec EXCEPT !.branch = "unknown service",
                                              !.ret = GetService(name)]]
        ELSE IF got.err # <<>>
        THEN [kc |-> kc, rec |-> [rec EXCEPT !.branch = "other error",
                                              !.ret = Wrap("failed to get token: ", got.err)]]
        ELSE IF got.token = <<>>
        THEN [kc |-> kc,
              rec |-> [rec EXCEPT
                         !.branch = "not found",
                         !.ret = <<Error("*errors.errorString",
                                         <<"not authenticated with ", name,
                                           ". Run: applink login ", name>>, <<>>)>>]]
        ELSE [kc |-> kc, rec |-> [rec EXCEPT !.branch = "printed", !.token = got.token,
                                              !.out = got.token[1].AccessToken]]

\* runLogout: applink logout <service>
runLogout(env, kc, available, name) ==
    LET rec == Command("logout", name, env, <<available>>)
        del == DeleteToken(kc, available, name)
    IN  IF GetService(name) # <<>>
        THEN [kc |-> kc, rec |-> [rec EXCEPT !.branch = "unknown service",
                                              !.ret = GetService(name)]]
        ELSE IF del.err # <<>>
        THEN [kc |-> del.kc,
              rec |-> [rec EXCEPT !.branch = "other error",
                                  !.ret = Wrap("failed to remove credentials: ", del.err)]]
        ELSE [kc |-> del.kc,
              rec |-> [rec EXCEPT !.branch = "removed",
                                  !.out = <<"Removed credentials for ", name>>]]

----------------------------------------------------------------------------
(* Package auth: parseTokenResponse applied to token responses *)

\* Bounds of the clock and of the lifetimes a response declares
MaxClock == 2
MaxLifetime == 2

Clocks == 1..MaxClock

\* The values of expires_in: absent, a number (negative, zero, positive), a string
Lifetimes ==
    {<<>>, <<String("3600")>>} \cup { <<Number(n)>> : n \in -1..MaxLifetime }

\* The values of authed_user: absent, an object without an access token, an
\* object with one
AuthedUsers ==
    { <<>>,
      <<[access_token |-> <<>>, scope |-> <<>>]>>,
      <<[access_token |-> <<"xoxp">>, scope |-> <<"chat:write">>]>> }

\* The token responses json.Unmarshal accepts, by the fields parseTokenResponse
\* looks at, and one it rejects
TokenBodies ==
    { [Body("{...}", TRUE, ok, IF ok = "false" THEN <<"invalid_code">> ELSE <<>>,
            at, au, IF au # <<>> THEN <<[id |-> <<"T1">>]>> ELSE <<>>)
         EXCEPT !.expires_in = e,
                !.refresh_token = IF at # <<>> THEN <<"refresh">> ELSE <<>>,
                !.token_type = IF at # <<>> THEN <<"Bearer">> ELSE <<>>,
                !.scope = IF at # <<>> THEN <<"read">> ELSE <<>>] :
        ok \in {"absent", "true", "false", "string"},
        at \in {<<>>, <<"tok">>},
        au \in AuthedUsers,
        e \in Lifetimes }
    \cup {Body("not json", FALSE, "absent", <<>>, <<>>, <<>>, <<>>),
          Body("x", FALSE, "absent", <<>>, <<>>, <<>>, <<>>)}

\* A call of parseTokenResponse(service, body)
ParseTokenResponse ==
    /\ \E svc \in Services, body \in TokenBodies :
         parse' = [svc |-> svc, body |-> body, ret |-> parseTokenResponse(svc, body)]
    /\ UNCHANGED <<service, portBusy, pc, expectedState, authURL, server, inShutdown, lpc,
                   codeChan, errChan, reqs, sent, selectReady, received, browser,
                   shutdownCalls, exchange, result>>
    /\ UNCHANGED certVars
    /\ UNCHANGED <<clock, keychain, store, cursor>>

\* No flow is running and no command has run
Idle ==
    /\ service = ""
    /\ portBusy = FALSE
    /\ pc = "idle"
    /\ expectedState = <<>>
    /\ authURL = <<>>
    /\ server = "none"
    /\ inShutdown = FALSE
    /\ lpc = "none"
    /\ codeChan = <<>>
    /\ errChan = <<>>
    /\ reqs = <<>>
    /\ sent = <<>>
    /\ selectReady = {}
    /\ received = NotReceived
    /\ browser = [printed |-> <<>>, opened |-> FALSE]
    /\ shutdownCalls = 0
    /\ exchange = <<>>
    /\ result = NoRet
    /\ goos = "linux"
    /\ keyFile = NoFile
    /\ certFile = NoFile
    /\ trustStore = NoFile
    /\ serial = 0
    /\ cli = NoCommand
    /\ leaf = NoLeaf

InitParse ==
    /\ Idle
    /\ clock \in Clocks
    /\ parse = NoParse
    /\ keychain = EmptyKeychain
    /\ store = NoStore
    /\ cursor = NoCursorConfig

NextParse == ParseTokenResponse

SpecParse == InitParse /\ [][NextParse]_vars

----------------------------------------------------------------------------
(* The keychain commands as a state machine: specification SpecStore *)

\* A command leaves the keychain and its record; nothing else changes
LeaveStore(o) ==
    /\ keychain' = o.kc
    /\ store' = o.rec
    /\ UNCHANGED <<service, portBusy, pc, expectedState, authURL, server, inShutdown, lpc,
                   codeChan, errChan, reqs, sent, selectReady, received, browser,
                   shutdownCalls, exchange, result>>
    /\ UNCHANGED certVars
    /\ UNCHANGED <<clock, parse, cursor>>

RunSetup ==
    \E name \in ServiceNames, available \in BOOLEAN, typed \in Typed,
       fail \in {"", "client ID", "client secret"} :
       \E env \in Environments(name) :
          LeaveStore(runSetup(env, keychain, available, name, typed, fail))

RunLogin ==
    \E name \in ServiceNames, available \in BOOLEAN, availableAfter \in BOOLEAN,
       flow \in {<<>>} \cup { <<t>> : t \in Tokens },
       prompt \in [key : {<<>>, <<"key-1">>}, readOK : BOOLEAN] :
       \E env \in Environments(name) :
          \* the input of the authentication that is not called is left out
          /\ AuthTypeOf(name) = "apikey" => flow = <<>>
          /\ AuthTypeOf(name) # "apikey" => prompt = [key |-> <<>>, readOK |-> TRUE]
          /\ LeaveStore(runLogin(env, keychain, available, name, flow, prompt,
                                 availableAfter))

\* A caller of the package removes the client credentials of a service
CallDeleteCredentials ==
    \E name \in ServiceNames \cap serviceRegistry, available \in BOOLEAN :
       LET d == DeleteCredentials(keychain, available, name)
       IN  LeaveStore([kc |-> d.kc,
                       rec |-> [Command("DeleteCredentials", name, NoEnvironment,
                                        <<available>>) EXCEPT !.ret = d.err]])

RunToken ==
    \E name \in ServiceNames, available \in BOOLEAN :
       \E env \in Environments(name) :
          LeaveStore(runToken(env, keychain, available, name))

RunLogout ==
    \E name \in ServiceNames, available \in BOOLEAN :
       \E env \in Environments(name) :
          LeaveStore(runLogout(env, keychain, available, name))

\* An empty keychain, no command run yet
InitStore ==
    /\ Idle
    /\ clock = 1
    /\ parse = NoParse
    /\ keychain = EmptyKeychain
    /\ store = NoStore
    /\ cursor = NoCursorConfig

\* Commands one after the other, each in its own environment
NextStore ==
    \/ RunSetup
    \/ RunLogin
    \/ RunToken
    \/ RunLogout
    \/ CallDeleteCredentials

SpecStore == InitStore /\ [][NextStore]_vars

----------------------------------------------------------------------------
(* Package mcp: ~/.cursor/mcp.json, and applink mcp add / remove *)

\* service.MCPPackage of the registry, "" for a service without MCP server
MCPPackageOf(svc) ==
    CASE svc = "slack" -> "@modelcontextprotocol/server-slack"
      [] svc = "notion" -> "@modelcontextprotocol/server-notion"
      [] svc = "linear" -> "@linear/mcp-server"
      [] OTHER -> ""

\* service.MCPEnvVars of the registry: pairs of environment variable and
\* token field
MCPEnvVarsOf(svc) ==
    CASE svc = "slack" -> {<<"SLACK_BOT_TOKEN", "access_token">>,
                           <<"SLACK_TEAM_ID", "team_id">>}
      [] svc = "notion" -> {<<"NOTION_API_TOKEN", "access_token">>}
      [] svc = "linear" -> {<<"LINEAR_API_KEY", "access_token">>}
      [] OTHER -> {}

\* The points where reading and writing the configuration can fail, "" for
\* none: os.UserHomeDir in cursorConfigPath, os.ReadFile for another reason
\* than a missing file, os.MkdirAll, and os.WriteFile either when it opens the
\* file or after it has truncated it
CursorFailures ==
    {"", "UserHomeDir", "ReadFile", "MkdirAll", "WriteFile open", "WriteFile write"}

\* LoadCursorConfig: the configuration in the file, an empty one when the file
\* does not exist, the error of json.Unmarshal when its text is not JSON. A
\* CursorConfig holds in mcpServers a set of ServerConfig entries, one for each
\* name, and the Env of an entry is a set of pairs of variable and value; the
\* file holds its JSON text, or text that is not JSON
LoadCursorConfig(file, fail) ==
    IF fail = "UserHomeDir"
    THEN [cfg |-> <<>>,
          err |-> <<Error("*errors.errorString", <<"$HOME is not defined">>, <<>>)>>]
    ELSE IF fail = "ReadFile"
    THEN [cfg |-> <<>>, err |-> <<Error("*fs.PathError", <<"permission denied">>, <<>>)>>]
    ELSE IF file = NoCursorConfig THEN [cfg |-> <<[mcpServers |-> {}]>>, err |-> <<>>]
    ELSE IF ~file[1].json
    THEN [cfg |-> <<>>,
          err |-> <<Error("*json.SyntaxError", <<"unexpected end of JSON input">>, <<>>)>>]
    ELSE [cfg |-> <<[mcpServers |-> file[1].mcpServers]>>, err |-> <<>>]

\* SaveCursorConfig: the file afterwards. os.WriteFile opens with O_TRUNC, so
\* a write that fails after the open leaves an empty file
SaveCursorConfig(file, cfg, fail) ==
    IF fail = "UserHomeDir"
    THEN [file |-> file,
          err |-> <<Error("*errors.errorString", <<"$HOME is not defined">>, <<>>)>>]
    ELSE IF fail \in {"MkdirAll", "WriteFile open"}
    THEN [file |-> file, err |-> <<Error("*fs.PathError", <<"permission denied">>, <<>>)>>]
    ELSE IF fail = "WriteFile write"
    THEN [file |-> <<[json |-> FALSE, mcpServers |-> {}]>>,
          err |-> <<Error("*fs.PathError", <<"no space left on device">>, <<>>)>>]
    ELSE [file |-> <<[json |-> TRUE, mcpServers |-> cfg.mcpServers]>>, err |-> <<>>]

\* The env map AddService builds: the token fields that are not empty
BuildEnv(svc, token) ==
    { <<p[1], token.AccessToken>> :
         p \in { q \in MCPEnvVarsOf(svc) : q[2] = "access_token" /\ token.AccessToken # <<>> } }
    \cup
    { <<p[1], token.TeamID>> :
         p \in { q \in MCPEnvVarsOf(svc) : q[2] = "team_id" /\ token.TeamID # <<>> } }

\* AddService: the file afterwards and the error. The entry of the service
\* replaces the one MCPServers holds under its name
AddService(file, kc, available, name, fail) ==
    LET got == GetToken(kc, available, name)
        loaded == LoadCursorConfig(file, fail)
        entry == [name |-> name, Command |-> "npx", Args |-> <<"-y", MCPPackageOf(name)>>,
                  Env |-> BuildEnv(name, got.token[1])]
        plain(msg) == <<Error("*errors.errorString", msg, <<>>)>>
    IN  IF GetService(name) # <<>> THEN [file |-> file, err |-> GetService(name)]
        ELSE IF MCPPackageOf(name) = ""
        THEN [file |-> file,
              err |-> plain(<<"service ", name, " does not have MCP support">>)]
        ELSE IF got.err # <<>> THEN [file |-> file, err |-> got.err]
        ELSE IF got.token = <<>>
        THEN [file |-> file, err |-> plain(<<"no token found for ", name>>)]
        ELSE IF loaded.err # <<>> THEN [file |-> file, err |-> loaded.err]
        ELSE SaveCursorConfig(file,
                 [mcpServers |-> { e \in loaded.cfg[1].mcpServers : e.name # name }
                                 \cup {entry}],
                 fail)

\* RemoveService: delete(cfg.MCPServers, serviceName), and the file is saved
RemoveService(file, name, fail) ==
    LET loaded == LoadCursorConfig(file, fail)
    IN  IF loaded.err # <<>> THEN [file |-> file, err |-> loaded.err]
        ELSE SaveCursorConfig(file,
                 [mcpServers |-> { e \in loaded.cfg[1].mcpServers : e.name # name }],
                 fail)

\* runMCPAdd: applink mcp add <service>
runMCPAdd(file, kc, available, name, fail) ==
    LET rec == Command("mcp add", name, NoEnvironment, <<available>>)
        got == GetToken(kc, available, name)
        added == AddService(file, kc, available, name, fail)
        plain(msg) == <<Error("*errors.errorString", msg, <<>>)>>
    IN  IF GetService(name) # <<>>
        THEN [file |-> file, rec |-> [rec EXCEPT !.branch = "unknown service",
                                                  !.ret = GetService(name)]]
        ELSE IF MCPPackageOf(name) = ""
        THEN [file |-> file,
              rec |-> [rec EXCEPT !.branch = "no MCP support",
                                  !.ret = plain(<<name, " does not have MCP server support">>)]]
        ELSE IF got.err # <<>> \/ got.token = <<>>
        THEN [file |-> file,
              rec |-> [rec EXCEPT !.branch = "not authenticated",
                                  !.ret = plain(<<"not authenticated with ", name>>)]]
        ELSE IF added.err # <<>>
        THEN [file |-> added.file,
              rec |-> [rec EXCEPT !.branch = "add failed",
                                  !.ret = Wrap("failed to add MCP server: ", added.err)]]
        ELSE [file |-> added.file,
              rec |-> [rec EXCEPT !.branch = "added", !.token = got.token,
                                  !.out = <<"Added MCP server for ", name>>]]

\* runMCPRemove: applink mcp remove <service>
runMCPRemove(file, name, fail) ==
    LET rec == Command("mcp remove", name, NoEnvironment, <<>>)
        removed == RemoveService(file, name, fail)
    IN  IF GetService(name) # <<>>
        THEN [file |-> file, rec |-> [rec EXCEPT !.branch = "unknown service",
                                                  !.ret = GetService(name)]]
        ELSE IF removed.err # <<>>
        THEN [file |-> removed.file,
              rec |-> [rec EXCEPT !.branch = "remove failed",
                                  !.ret = Wrap("failed to remove MCP server: ",
                                               removed.err)]]
        ELSE [file |-> removed.file,
              rec |-> [rec EXCEPT !.branch = "removed",
                                  !.out = <<"Removed MCP server for ", name>>]]

\* runMCPInstall: applink mcp install. services is config.AllServices(), the
\* registry in the order the iteration of the map gives; fails names, for each
\* service, the failure of reading or writing in its call of AddService. A
\* failure of AddService is only printed, and nil is returned
runMCPInstall(file, kc, available, services, fails) ==
    LET rec == Command("mcp install", "", NoEnvironment, <<available>>)
        HasToken(svc) ==
            /\ MCPPackageOf(svc) # ""
            /\ GetToken(kc, available, svc).err = <<>>
            /\ GetToken(kc, available, svc).token # <<>>
        authenticated == SelectSeq(services, HasToken)
        RECURSIVE addFrom(_, _)
        addFrom(f, i) ==
            IF i > Len(authenticated) THEN [file |-> f, out |-> <<>>]
            ELSE LET added == AddService(f, kc, available, authenticated[i],
                                         fails[authenticated[i]])
                     rest == addFrom(added.file, i + 1)
                 IN  [file |-> rest.file,
                      out |-> (IF added.err # <<>>
                               THEN <<"Failed to add ", authenticated[i]>>
                               ELSE <<"Added ", authenticated[i]>>) \o rest.out]
        all == addFrom(file, 1)
    IN  IF authenticated = <<>>
        THEN [file |-> file,
              rec |-> [rec EXCEPT
                         !.branch = "none authenticated",
                         !.out = <<"No authenticated services found with MCP support.">>]]
        ELSE [file |-> all.file,
              rec |-> [rec EXCEPT
                         !.branch = "installed",
                         !.out = <<"Found tokens for: ">> \o authenticated \o all.out
                                    \o <<"Updated ~/.cursor/mcp.json">>]]

\* applink mcp install: two orders of the registry, and a failure for each
\* service that has a token
RunMCPInstall ==
    /\ \E available \in BOOLEAN,
          services \in {<<"slack", "notion", "linear", "honeycomb">>,
                        <<"honeycomb", "linear", "notion", "slack">>},
          fails \in [{ svc \in serviceRegistry :
                          /\ MCPPackageOf(svc) # ""
                          /\ keychain[<<keyringServiceName, svc>>] # <<>> }
                       -> CursorFailures] :
         LET o == runMCPInstall(cursor, keychain, available, services, fails)
         IN  cursor' = o.file /\ store' = o.rec
    /\ UNCHANGED <<service, portBusy, pc, expectedState, authURL, server, inShutdown, lpc,
                   codeChan, errChan, reqs, sent, selectReady, received, browser,
                   shutdownCalls, exchange, result>>
    /\ UNCHANGED certVars
    /\ UNCHANGED <<clock, parse, keychain>>

\* applink mcp add <service>: the configuration file and the record it leaves
RunMCPAdd ==
    /\ \E name \in ServiceNames \cup {"notion"}, available \in BOOLEAN, fail \in CursorFailures :
         LET o == runMCPAdd(cursor, keychain, available, name, fail)
         IN  cursor' = o.file /\ store' = o.rec
    /\ UNCHANGED <<service, portBusy, pc, expectedState, authURL, server, inShutdown, lpc,
                   codeChan, errChan, reqs, sent, selectReady, received, browser,
                   shutdownCalls, exchange, result>>
    /\ UNCHANGED certVars
    /\ UNCHANGED <<clock, parse, keychain>>

\* applink mcp remove <service>
RunMCPRemove ==
    /\ \E name \in ServiceNames \cup {"notion"}, fail \in CursorFailures :
         LET o == runMCPRemove(cursor, name, fail)
         IN  cursor' = o.file /\ store' = o.rec
    /\ UNCHANGED <<service, portBusy, pc, expectedState, authURL, server, inShutdown, lpc,
                   codeChan, errChan, reqs, sent, selectReady, received, browser,
                   shutdownCalls, exchange, result>>
    /\ UNCHANGED certVars
    /\ UNCHANGED <<clock, parse, keychain>>

\* The keychain of a machine on which applink login notion may have stored
\* a token, no command of this run yet
InitMCP ==
    /\ Idle
    /\ clock = 1
    /\ parse = NoParse
    /\ \E stored \in {<<>>} \cup
                     {<<MarshalToken([ZeroToken EXCEPT !.AccessToken = <<"tok-3">>])>>} :
          keychain = [EmptyKeychain EXCEPT ![<<keyringServiceName, "notion">>] = stored]
    /\ store = NoStore
    /\ cursor = NoCursorConfig

\* login, mcp install, mcp add, mcp remove and logout, one after the other
NextMCP ==
    \/ RunLogin
    \/ RunMCPInstall
    \/ RunMCPAdd
    \/ RunMCPRemove
    \/ RunLogout

SpecMCP == InitMCP /\ [][NextMCP]_vars

----------------------------------------------------------------------------

(* What the claims speak of *)

\* The parameters of request i as the handler reads them
ReqParam(i, k) == Get(Query(reqs[i].query), k)

\* Request i carries the parameter k (with whatever value, the empty one included)
Carries(i, k) == Len(reqs[i].query[k]) > 0

\* fmt.Errorf("%s: %s", error, error_description) of request i
ProviderError(i) == ReqParam(i, "error") \o <<": ">> \o ReqParam(i, "error_description")

StateMismatch == <<"state mismatch: possible CSRF attack">>

MissingCode == <<"no authorization code in callback">>

TimedOut == <<"authentication timed out">>

IsProperPrefix(s, t) == Len(s) < Len(t) /\ SubSeq(t, 1, Len(s)) = s

IsProperSuffix(s, t) == Len(s) < Len(t) /\ SubSeq(t, Len(t) - Len(s) + 1, Len(t)) = s

\* The select of DoOAuthFlow took the outcome that request i sent
WonBy(i) == received.kind \in {"code", "err"} /\ received.from = i

\* The listener holds the callback port
PortHeld == lpc \in {"bound", "serving"}

----------------------------------------------------------------------------
(* C1 *)

\* C1 (as claimed): in one run of DoOAuthFlow at most one outcome is produced,
\* counting the sends completed on codeChan and on errChan together.
C1_AtMostOneOutcome == Len(sent) <= 1

----------------------------------------------------------------------------
(* C2 *)

\* C2: a request whose state parameter is not exactly the expected state
\* (absent, empty, a proper prefix or suffix of it, or any other value) never
\* takes the code branch of the handler, is never the origin of a code received
\* by DoOAuthFlow, and when its outcome decides the select no token exchange is
\* made and no token is returned.
C2_StateMismatchNeverCode ==
    \A i \in 1..Len(reqs) :
        ReqParam(i, "state") # expectedState =>
            /\ reqs[i].out.chan # "code"
            /\ ~(received.kind = "code" /\ received.from = i)
            /\ WonBy(i) => (exchange = <<>> /\ result.token = <<>>)

\* A request whose state is a non-empty proper prefix of the expected state,
\* with a code and no error, was served and decided the flow, which returned.
C2_Witness ==
    \E i \in 1..Len(reqs) :
        /\ IsProperPrefix(ReqParam(i, "state"), expectedState)
        /\ ReqParam(i, "state") # <<>>
        /\ ReqParam(i, "code") # <<>>
        /\ ~Carries(i, "error")
        /\ reqs[i].hpc = "done"
        /\ WonBy(i)
        /\ pc = "returned"

----------------------------------------------------------------------------
(* C3 *)

\* C3 (as claimed): a request that carries both a code and an error parameter
\* takes the error branch: provider error, never the code outcome, whatever its
\* state.
C3_Original_AnyErrorParam ==
    \A i \in 1..Len(reqs) :
        (Carries(i, "code") /\ Carries(i, "error")) =>
            /\ reqs[i].out.chan = "err"
            /\ reqs[i].out.val = ProviderError(i)

\* C3 (amended): a request that carries a code and a non-empty error parameter
\* takes the error branch: its outcome is the provider error built from error
\* and error_description, on errChan, whether or not its state matches; it is
\* never the origin of a code received by DoOAuthFlow.
C3_ErrorBranchFirst ==
    \A i \in 1..Len(reqs) :
        (Carries(i, "code") /\ ReqParam(i, "error") # <<>>) =>
            /\ reqs[i].out.chan = "err"
            /\ reqs[i].out.val = ProviderError(i)
            /\ reqs[i].out.page = "errorHTML"
            /\ ~(received.kind = "code" /\ received.from = i)

\* A request with a non-empty error, a non-empty code and the expected state was
\* served and its handler has sent its outcome.
C3_Witness ==
    \E i \in 1..Len(reqs) :
        /\ ReqParam(i, "error") # <<>>
        /\ ReqParam(i, "code") # <<>>
        /\ ReqParam(i, "state") = expectedState
        /\ reqs[i].hpc = "done"

----------------------------------------------------------------------------
(* C4 *)

\* C4 (as claimed): the handler takes the code branch if and only if the
\* request has no error parameter, its state is the expected one and its code
\* is present and non-empty; the value is then the code parameter; with no
\* error parameter, the expected state and no code it is the missing-code error.
C4_Original_NoErrorParam ==
    \A i \in 1..Len(reqs) :
        /\ reqs[i].out.chan = "code" <=>
              (/\ ~Carries(i, "error")
               /\ ReqParam(i, "state") = expectedState
               /\ Carries(i, "code") /\ ReqParam(i, "code") # <<>>)
        /\ reqs[i].out.chan = "code" => reqs[i].out.val = ReqParam(i, "code")

\* C4 (amended): the handler takes the code branch if and only if the request
\* has no error parameter or an empty one, its state is the expected one and its
\* code is present and non-empty; the value sent is then exactly the code
\* parameter, and it is the value DoOAuthFlow receives and puts in the exchange
\* request; with no (or an empty) error, the expected state and no code (or an
\* empty one) the outcome is the missing-code error.
C4_CodeIffValid ==
    \A i \in 1..Len(reqs) :
        /\ reqs[i].out.chan = "code" <=>
              (/\ ReqParam(i, "error") = <<>>
               /\ ReqParam(i, "state") = expectedState
               /\ Carries(i, "code") /\ ReqParam(i, "code") # <<>>)
        /\ reqs[i].out.chan = "code" =>
              /\ reqs[i].out.val = reqs[i].query.code[1]
              /\ reqs[i].out.page = "successHTML"
              /\ WonBy(i) => received.val = reqs[i].query.code[1]
              /\ (WonBy(i) /\ exchange # <<>>) =>
                    exchange[1].req.body.code = reqs[i].query.code[1]
        /\ (/\ ReqParam(i, "error") = <<>>
            /\ ReqParam(i, "state") = expectedState
            /\ ReqParam(i, "code") = <<>>) =>
              (reqs[i].out.chan = "err" /\ reqs[i].out.val = MissingCode)

\* code=abc123 with the expected state and no error parameter was served, won
\* the select with the value "abc123", and the exchange was made with it.
C4_Witness ==
    \E i \in 1..Len(reqs) :
        /\ ~Carries(i, "error")
        /\ reqs[i].query.state = <<expectedState>>
        /\ reqs[i].query.code = << <<"abc123">> >>
        /\ received = [kind |-> "code", val |-> <<"abc123">>, from |-> i]
        /\ exchange # <<>>

----------------------------------------------------------------------------
(* C5 *)

\* What C5 says of request i
C5_ProviderErrorOf(i) ==
    /\ reqs[i].out.chan = "err"
    /\ reqs[i].out.val = ProviderError(i)
    /\ reqs[i].out.page = "errorHTML"
    /\ Carries(i, "error_description") =>
          Contains(reqs[i].out.val, QueryUnescape(reqs[i].query.error_description[1]))
    /\ reqs[i].query.error_description = << <<"user", "+", "cancelled">> >> =>
          Contains(reqs[i].out.val, <<"user", " ", "cancelled">>)
    /\ (WonBy(i) /\ pc = "returned") =>
          /\ result.token = <<>>
          /\ result.err = reqs[i].out.val
    /\ WonBy(i) => exchange = <<>>

\* C5 (as claimed): every request that carries an error parameter, whatever its
\* value, yields the provider error built from error and error_description.
C5_Original_WhateverValue ==
    \A i \in 1..Len(reqs) : Carries(i, "error") => C5_ProviderErrorOf(i)

\* C5 (amended): every request that carries a non-empty error parameter yields
\* the provider error built from error and error_description; when that outcome
\* decides the select, DoOAuthFlow returns no token and an error that is this
\* message, which contains the URL-decoded description, and makes no exchange.
C5_ProviderError ==
    \A i \in 1..Len(reqs) : ReqParam(i, "error") # <<>> => C5_ProviderErrorOf(i)

\* error=access_denied&error_description=user+cancelled was served, decided the
\* select, and DoOAuthFlow returned.
C5_Witness ==
    \E i \in 1..Len(reqs) :
        /\ reqs[i].query.error = << <<"access_denied">> >>
        /\ reqs[i].query.error_description = << <<"user", "+", "cancelled">> >>
        /\ WonBy(i)
        /\ pc = "returned"
        /\ Contains(result.err, <<"user", " ", "cancelled">>)

----------------------------------------------------------------------------
(* C6 *)

\* C6 (as claimed): when a code outcome and an error outcome are both pending
\* as DoOAuthFlow enters its select, the case taken is the one of the outcome
\* that was produced first.
C6_FirstSignalWins ==
    selectReady = {"code", "err"} => received.kind = sent[1].chan

----------------------------------------------------------------------------
(* C7 *)

ShutdownBeforeReturn ==
    /\ (pc = "returned" /\ server = "created") => (shutdownCalls = 1 /\ inShutdown)
    /\ inShutdown => lpc # "serving"
    /\ (inShutdown /\ PortHeld) => received.kind = "timeout"

----------------------------------------------------------------------------
(* C8 *)

----------------------------------------------------------------------------
(* C9 *)

BindError == <<"callback server error: ", "bind: address already in use">>

BindFailureDelivered ==
    (portBusy /\ server = "created" /\ received.kind # "timeout") =>
        /\ lpc = "exited" =>
              /\ sent = <<[chan |-> "err", from |-> 0]>>
              /\ \/ errChan = <<[val |-> BindError, from |-> 0]>>
                 \/ received = [kind |-> "err", val |-> BindError, from |-> 0]
              /\ pc # "blocked"
        /\ pc = "returned" => result = Ret(<<>>, BindError)

\* The port is taken, whatever case the select took
BindFailureNoExchange ==
    (portBusy /\ server = "created") =>
        /\ ~PortHeld
        /\ reqs = <<>>
        /\ received.kind # "code"
        /\ exchange = <<>>
        /\ (pc = "returned" /\ received.kind = "timeout") => result = Ret(<<>>, TimedOut)

----------------------------------------------------------------------------
(* C10 *)

\* The response is one of the failures C10 lists, or Slack's ok:false
ExchangeFailed(svc, resp) ==
    \/ resp.err # <<>>
    \/ resp.status # StatusOK
    \/ ~resp.body.json
    \/ svc = "slack" /\ resp.body.ok = "false"
    \/ svc = "slack" /\ resp.body.authed_user = <<>>
    \/ svc = "slack" /\ resp.body.authed_user # <<>>
          /\ resp.body.authed_user[1].access_token = <<>>
    \/ svc # "slack" /\ resp.body.access_token = <<>>

\* C10: an exchange is made only after the code case won the select, once, with
\* the code that was received (the one the winning handler sent); when
\* DoOAuthFlow has returned after the code case exactly one exchange was made;
\* it returns a token if and only if an exchange was made and its response was
\* no failure, and it returns an error and no token otherwise.
C10_ExchangeIffCode ==
    /\ exchange # <<>> =>
          /\ received.kind = "code"
          /\ Len(exchange) = 1
          /\ exchange[1].req.body.code = received.val
          /\ received.from \in 1..Len(reqs)
          /\ exchange[1].req.body.code = reqs[received.from].out.val
    /\ (pc = "returned" /\ received.kind = "code") => Len(exchange) = 1
    /\ pc = "returned" =>
          /\ result.token # <<>> <=>
                (exchange # <<>> /\ ~ExchangeFailed(service, exchange[1].resp))
          /\ result.token = <<>> <=> result.err # <<>>
          /\ result.token # <<>> => result.token[1].AccessToken # <<>>
    /\ pc # "returned" => result = NoRet

\* The code case won, the token endpoint answered 400 with a body that holds an
\* access token, and DoOAuthFlow returned an error and no token.
C10_Witness ==
    /\ pc = "returned"
    /\ received.kind = "code"
    /\ Len(exchange) = 1
    /\ exchange[1].resp.status = StatusBadRequest
    /\ exchange[1].resp.body.access_token # <<>>
    /\ result.token = <<>>
    /\ result.err # <<>>

----------------------------------------------------------------------------
(* C11 *)

\* The access token parseTokenResponse reads from a body, "" when the body is
\* no JSON object or holds none at the place the provider puts it
AccessTokenOf(svc, body) ==
    IF ~body.json THEN <<>>
    ELSE IF svc = "slack"
    THEN IF body.authed_user # <<>> THEN body.authed_user[1].access_token ELSE <<>>
    ELSE body.access_token

\* The exchange got a 200 answer, so its body went to parseTokenResponse
Parsed ==
    /\ pc = "returned"
    /\ Len(exchange) = 1
    /\ exchange[1].resp.err = <<>>
    /\ exchange[1].resp.status = StatusOK

\* C11: a token is returned only with a non-empty access token, and
\* every parsed body that lacks a non-empty access token is rejected with an
\* error that contains the raw body.
C11_AlwaysRawBody ==
    Parsed =>
        LET body == exchange[1].resp.body
        IN  /\ result.token # <<>> => result.token[1].AccessToken # <<>>
            /\ AccessTokenOf(service, body) = <<>> =>
                  /\ result.token = <<>>
                  /\ Contains(result.err, <<body.raw>>)

----------------------------------------------------------------------------
(* C12 *)

\* The token endpoint answered the exchange with a status other than 200
AnsweredNot200 ==
    /\ pc = "returned"
    /\ Len(exchange) = 1
    /\ exchange[1].resp.err = <<>>
    /\ exchange[1].resp.status # StatusOK

\* C12: when the token endpoint answers with a status other than 200 (another
\* 2xx included), the exchange fails with "token exchange failed: " followed
\* by the response body verbatim, and no token is returned, whatever the body
\* holds: the error is the one of the status check, not one of
\* parseTokenResponse, and a well-formed access token in the body is not used.
C12_Non200Fails ==
    AnsweredNot200 =>
        LET body == exchange[1].resp.body
        IN  /\ result.token = <<>>
            /\ result.err = <<"failed to exchange code: ", "token exchange failed: ", body.raw>>
            /\ Contains(result.err, <<body.raw>>)
            /\ exchangeCode(service, exchange[1].resp) # parseTokenResponse(service, body)

\* HTTP 400 with body {"error":"invalid_grant"}: the failure contains that text
C12_Witness ==
    /\ AnsweredNot200
    /\ exchange[1].resp.status = StatusBadRequest
    /\ exchange[1].resp.body.raw = "{\"error\":\"invalid_grant\"}"
    /\ result.token = <<>>
    /\ Contains(result.err, <<"{\"error\":\"invalid_grant\"}">>)

----------------------------------------------------------------------------
(* C13 *)

\* GenerateCA failed in the ensureCertsInitialized of the login that ran last
LoginGenerateCAFailed == cli.cmd = "login" /\ cli.generate \notin {"", "ok"}

\* C13: a certificate failure is fatal to the login. When GenerateCA has
\* failed in ensureCertsInitialized, doOAuthLogin has returned an error and no
\* token, and DoOAuthFlow is not entered; when the TLS certificate could not be
\* generated in startCallbackServer (it returned nil), DoOAuthFlow opens no
\* browser, does not enter its select, and ends by returning, not by a panic.
C13_CertFailureFatal ==
    /\ LoginGenerateCAFailed =>
          /\ pc = "returned"
          /\ result.token = <<>>
          /\ result.err # <<>>
    /\ server = "nil" =>
          /\ browser.printed = <<>>
          /\ ~browser.opened
          /\ pc \notin {"select", "blocked", "shutdownErr", "panicked"}

----------------------------------------------------------------------------
(* C14 *)

\* InstallCA was called by the command that ran last, and failed
InstallCAFailed == cli.cmd \in {"init", "login"} /\ cli.install = "failed"

\* The commands of the manual installation, as the command that ran last
\* prints them for the system
ManualCommands ==
    IF cli.cmd = "init" THEN printManualInstructions(goos) ELSE loginManualInstructions(goos)

\* The failure of InstallCA did not abort: the command returned nil, and the
\* login went on to DoOAuthFlow
NotAborted ==
    /\ cli.ret = <<>>
    /\ cli.cmd = "login" => (pc = "generateState" /\ result = NoRet)
    /\ Contains(cli.out, <<"You can install it manually:">>)

\* C14 as stated: a failure of InstallCA does not abort, and the manual
\* installation instructions are printed, on every system.
C14_Original_InstructionsPrinted ==
    InstallCAFailed =>
        /\ NotAborted
        /\ ManualCommands # <<>>
        /\ Contains(cli.out, ManualCommands)

\* C14, amended: a failure of InstallCA never aborts the command that called
\* it: ensureCertsInitialized returns nil and the login goes on to DoOAuthFlow,
\* runInit returns nil, and both print "You can install it manually:"; the
\* commands to run follow on macOS, Linux and Windows, and on any other
\* system (where InstallCA always fails) none follows the heading.
C14_InstallFailureNotFatal ==
    InstallCAFailed =>
        /\ NotAborted
        /\ goos \in SupportedGOOS =>
              (ManualCommands # <<>> /\ Contains(cli.out, ManualCommands))
        /\ goos \notin SupportedGOOS => ManualCommands = <<>>

\* A login whose InstallCA failed on Linux: the commands were printed, nil was
\* returned and DoOAuthFlow is entered.
C14_Witness ==
    /\ InstallCAFailed
    /\ cli.cmd = "login"
    /\ goos = "linux"
    /\ Contains(cli.out, <<"sudo update-ca-certificates">>)
    /\ cli.ret = <<>>
    /\ pc = "generateState"

----------------------------------------------------------------------------
(* C15 *)

\* The file is present and holds one PEM block of the given type
WellFormed(file, type) ==
    file.exists /\ Len(file.blocks) = 1 /\ file.blocks[1].Type = type

\* C15: CAExists returns true exactly when the CA key file and the CA
\* certificate file are both present and well-formed, and whenever it returns
\* true LoadCA succeeds and GenerateServerCert (with nothing else failing)
\* returns a certificate.
C15_CAExistsIffWellFormed ==
    LET ex == CAExists(TRUE, keyFile, certFile)
    IN  /\ ex.exists <=> (WellFormed(keyFile, "EC PRIVATE KEY")
                            /\ WellFormed(certFile, "CERTIFICATE"))
        /\ ex.exists =>
              /\ LoadCA(TRUE, keyFile, certFile).err = <<>>
              /\ GenerateServerCert(TRUE, keyFile, certFile, "").err = <<>>

----------------------------------------------------------------------------
(* C16 *)

\* The step is a command in which GenerateCA was called and returned nil
GenerateCASucceeded == serial' = serial + 1 /\ cli'.generate = "ok"

\* C16: after a successful GenerateCA, CAExists returns true and each of the
\* two files holds exactly one PEM block, the key file an EC PRIVATE KEY and the
\* certificate file a CERTIFICATE, both of the key pair that was just drawn;
\* this holds from a state with no authority as from one with an authority,
\* whose two files are both replaced.
C16_GenerateCAWritesPair ==
    [][GenerateCASucceeded =>
         /\ CAExists(TRUE, keyFile', certFile').exists
         /\ WellFormed(keyFile', "EC PRIVATE KEY")
         /\ WellFormed(certFile', "CERTIFICATE")
         /\ keyFile'.blocks[1].ca = serial'
         /\ certFile'.blocks[1].ca = serial'
         /\ keyFile' # keyFile
         /\ certFile' # certFile
         /\ LoadCA(TRUE, keyFile', certFile').err = <<>>]_vars

\* init --force on an existing authority: GenerateCA succeeded and the two
\* files hold the second key pair.
C16_Witness ==
    /\ cli.cmd = "init"
    /\ cli.force
    /\ cli.caExists
    /\ cli.generate = "ok"
    /\ serial = 2
    /\ keyFile = PEMFile("EC PRIVATE KEY", 2)
    /\ certFile = PEMFile("CERTIFICATE", 2)

----------------------------------------------------------------------------
(* C17 *)

\* GenerateServerCert was the last call made
ServerCertCalled == cli.cmd = "GenerateServerCert"

\* C17: GenerateServerCert returns an error and the zero certificate whenever
\* one of the two CA files is missing; it returns either an error or a
\* certificate, never both; and a certificate it returns is for localhost,
\* names the authority of the CA certificate on disk as its issuer and is
\* signed with the CA key on disk, which is the key of that certificate.
C17_ServerCertNeedsAuthority ==
    ServerCertCalled =>
        /\ (~keyFile.exists \/ ~certFile.exists) =>
              /\ leaf.err # <<>>
              /\ Contains(leaf.err, <<"failed to load CA: ">>)
              /\ leaf.cert = <<>>
        /\ leaf.err # <<>> <=> leaf.cert = <<>>
        /\ leaf.cert # <<>> =>
              /\ WellFormed(keyFile, "EC PRIVATE KEY")
              /\ WellFormed(certFile, "CERTIFICATE")
              /\ leaf.cert[1].Subject = "localhost"
              /\ leaf.cert[1].Issuer = certFile.blocks[1].ca
              /\ leaf.cert[1].signedBy = keyFile.blocks[1].ca
              /\ leaf.cert[1].signedBy = leaf.cert[1].Issuer

\* GenerateServerCert was called with the key file on disk and the
\* certificate file missing, and failed.
C17_Witness ==
    /\ ServerCertCalled
    /\ keyFile.exists
    /\ ~certFile.exists
    /\ leaf.err # <<>>
    /\ leaf.cert = <<>>

----------------------------------------------------------------------------
(* C18 *)

\* The step is not a run of init --force
NotForcedInit == ~(cli'.cmd = "init" /\ cli'.force)

\* C18: when both CA files are on disk, a run of init without --force or a
\* login (its ensureCertsInitialized), whatever the answer at the prompt and
\* whatever fails, leaves the CA key file and the CA certificate file as they
\* were: only init --force calls GenerateCA on an existing authority.
C18_OnlyForceOverwrites ==
    [][(CAExists(TRUE, keyFile, certFile).exists /\ NotForcedInit) =>
         (keyFile' = keyFile /\ certFile' = certFile)]_vars

\* init without --force ran on an existing authority that was not in the
\* trust store: it went on to the prompt and to InstallCA without generating,
\* and the files still hold the first key pair.
C18_Witness ==
    /\ cli.cmd = "init"
    /\ ~cli.force
    /\ cli.caExists
    /\ cli.generate = ""
    /\ cli.install # ""
    /\ keyFile = PEMFile("EC PRIVATE KEY", 1)
    /\ certFile = PEMFile("CERTIFICATE", 1)

----------------------------------------------------------------------------
(* C19 *)

\* The handler of request i is at its channel send and the send cannot
\* complete: DoOAuthFlow is not waiting in its select and the buffer of the
\* channel holds a value
SendBlocked(i) ==
    /\ reqs[i].hpc = "send"
    /\ pc # "blocked"
    /\ ChanBuf(reqs[i].out.chan) # <<>>

\* C19: the send of a handler never blocks: whenever a handler is at its
\* send, either DoOAuthFlow is waiting in its select or the buffer of the
\* channel is empty, whatever DoOAuthFlow is doing.
C19_SendNeverBlocks == \A i \in 1..Len(reqs) : ~SendBlocked(i)

----------------------------------------------------------------------------
(* C20 *)

\* The redirect_uri parameter of the authorization URL that was built
RedirectParam == authURL[1].query["redirect_uri"][1]

\* C20: the redirect_uri of the authorization URL is
\* <scheme>://localhost:<port>/callback with the port DoOAuthFlow was given,
\* and its scheme is https when the service ID is "slack" and http for every
\* other service.
C20_RedirectScheme ==
    authURL # <<>> =>
        /\ RedirectParam.scheme = "https" <=> service = "slack"
        /\ RedirectParam.scheme = "http" <=> service # "slack"
        /\ RedirectParam.host = "localhost"
        /\ RedirectParam.port = defaultCallbackPort
        /\ RedirectParam.path = "/callback"
        /\ RedirectParam = RedirectURI(useTLSScheme(service = "slack"), defaultCallbackPort)

\* The authorization URL of a slack flow was built, with an https redirect
C20_Witness ==
    /\ service = "slack"
    /\ authURL # <<>>
    /\ RedirectParam.scheme = "https"
    /\ pc = "startCallbackServer"

----------------------------------------------------------------------------
(* C21 *)

\* The query parameters of the authorization URL that was built
AuthQuery == authURL[1].query

\* The parameters of the authorization URL that carry scopes
ScopeParams == DOMAIN AuthQuery \cap {"scope", "user_scope"}

\* value is the elements of scopes, in order, with sep between neighbours
SeparatedBy(value, scopes, sep) ==
    /\ Len(value) = 2 * Len(scopes) - 1
    /\ \A i \in 1..Len(value) :
          IF i % 2 = 1 THEN value[i] = scopes[(i + 1) \div 2] ELSE value[i] = sep

\* C21: the authorization URL is the provider's authorization URL with
\* client_id, redirect_uri, response_type=code and state set, and the scopes
\* are in exactly one parameter: user_scope, comma-separated, for slack; scope,
\* space-separated, for every other provider; and there is no scope parameter
\* at all when the provider's scope list is empty.
C21_AuthURLParameters ==
    authURL # <<>> =>
        /\ authURL[1].base = AuthURLOf(service)
        /\ {"client_id", "redirect_uri", "response_type", "state"} \subseteq DOMAIN AuthQuery
        /\ AuthQuery["client_id"] = Creds.ClientID
        /\ AuthQuery["response_type"] = <<"code">>
        /\ AuthQuery["state"] = expectedState
        /\ IF Len(ScopesOf(service)) = 0 THEN ScopeParams = {}
           ELSE IF service = "slack"
           THEN /\ ScopeParams = {"user_scope"}
                /\ SeparatedBy(AuthQuery["user_scope"], ScopesOf(service), ",")
           ELSE /\ ScopeParams = {"scope"}
                /\ SeparatedBy(AuthQuery["scope"], ScopesOf(service), " ")

\* The authorization URL of a slack flow was built: its scopes are in
\* user_scope, with commas, and it has no scope parameter
C21_Witness ==
    /\ service = "slack"
    /\ authURL # <<>>
    /\ ScopeParams = {"user_scope"}
    /\ AuthQuery["user_scope"][2] = ","
    /\ Len(AuthQuery["user_scope"]) = 11

----------------------------------------------------------------------------
(* C22 *)

\* The token-exchange request that was sent
SentRequest == exchange[1].req

\* The Basic credentials of the client: "Basic " and the base64 of id:secret
BasicAuth ==
    <<"Basic ", Base64(Creds.ClientID \o <<":">> \o Creds.ClientSecret)>>

\* C22: in the token-exchange request the client credentials are in exactly
\* one place: for notion in a Basic Authorization header and not in the body,
\* for every other provider in the body fields client_id and client_secret
\* with no Authorization header; in both cases the body that is sent has
\* grant_type=authorization_code, the code received and the redirect_uri.
C22_CredentialsInOnePlace ==
    exchange # <<>> =>
        /\ IF service = "notion"
           THEN /\ "Authorization" \in DOMAIN SentRequest.header
                /\ SentRequest.header.Authorization = BasicAuth
                /\ DOMAIN SentRequest.body \cap {"client_id", "client_secret"} = {}
           ELSE /\ "Authorization" \notin DOMAIN SentRequest.header
                /\ {"client_id", "client_secret"} \subseteq DOMAIN SentRequest.body
                /\ SentRequest.body.client_id = Creds.ClientID
                /\ SentRequest.body.client_secret = Creds.ClientSecret
        /\ {"grant_type", "code", "redirect_uri"} \subseteq DOMAIN SentRequest.body
        /\ SentRequest.body.grant_type = "authorization_code"
        /\ SentRequest.body.code = received.val
        /\ SentRequest.body.redirect_uri =
              RedirectURI(useTLSScheme(service = "slack"), defaultCallbackPort)

\* A notion exchange was sent: the credentials are in the header only
C22_Witness ==
    /\ service = "notion"
    /\ exchange # <<>>
    /\ SentRequest.header.Authorization = BasicAuth
    /\ DOMAIN SentRequest.body = {"grant_type", "code", "redirect_uri"}

----------------------------------------------------------------------------
(* C23 *)

\* parseTokenResponse was called and returned a token
ParsedToken == parse.svc # "" /\ parse.ret.token # <<>>

\* The response declares a lifetime: expires_in is a JSON number
DeclaresLifetime(body) ==
    body.expires_in # <<>> /\ body.expires_in[1].type = "number"

\* C23: for every provider, when the token response declares a lifetime
\* greater than zero the token's ExpiresAt is the issue time plus that
\* lifetime, and when no lifetime is declared, or it is not greater than zero,
\* ExpiresAt is the zero value.
C23_ExpiresAtFromLifetime ==
    ParsedToken =>
        /\ (DeclaresLifetime(parse.body) /\ parse.body.expires_in[1].num > 0) =>
              parse.ret.token[1].ExpiresAt = clock + parse.body.expires_in[1].num
        /\ (parse.body.expires_in = <<>>
              \/ (DeclaresLifetime(parse.body) /\ parse.body.expires_in[1].num <= 0)) =>
              parse.ret.token[1].ExpiresAt = 0

----------------------------------------------------------------------------
(* C24 *)

\* parseTokenResponse was called for slack with a body that is JSON
SlackParsed == parse.svc = "slack" /\ parse.body.json

\* The body has authed_user.access_token, non-empty
HasUserToken(body) ==
    body.authed_user # <<>> /\ body.authed_user[1].access_token # <<>>

\* C24: for slack, a token response whose boolean flag `ok` is false is
\* rejected with an error, and no token is returned, whatever access token
\* the body contains.
C24_SlackNotOkRejected ==
    (SlackParsed /\ parse.body.ok = "false") =>
        /\ parse.ret.token = <<>>
        /\ parse.ret.err = <<"slack auth failed: ">> \o parse.body.error

\* A slack response with ok false and a user access token was rejected
C24_Witness ==
    /\ SlackParsed
    /\ parse.body.ok = "false"
    /\ HasUserToken(parse.body)
    /\ parse.body.access_token # <<>>
    /\ parse.ret.token = <<>>
    /\ parse.ret.err # <<>>

----------------------------------------------------------------------------
(* C30 *)

\* The original statement of C30: for slack a token is returned only if `ok`
\* is present and is the boolean true; a response in which `ok` is absent or
\* is not a boolean is rejected.
C30_Original_OkPresentAndTrue ==
    (SlackParsed /\ parse.ret.token # <<>>) => parse.body.ok = "true"

\* C30: for slack, parseTokenResponse returns a token exactly when `ok` is
\* not the boolean false and authed_user.access_token is non-empty; a
\* response in which `ok` is absent or is not a boolean is treated like one
\* in which it is true.
C30_SlackTokenUnlessOkFalse ==
    SlackParsed =>
        /\ parse.ret.token # <<>> <=>
              (parse.body.ok # "false" /\ HasUserToken(parse.body))
        /\ parse.ret.token # <<>> =>
              /\ parse.ret.err = <<>>
              /\ parse.ret.token[1].AccessToken = parse.body.authed_user[1].access_token
        /\ parse.ret.token = <<>> => parse.ret.err # <<>>

\* A slack response without `ok`, with a user access token, gave a token
C30_Witness ==
    /\ SlackParsed
    /\ parse.body.ok = "absent"
    /\ HasUserToken(parse.body)
    /\ parse.ret.token # <<>>
    /\ parse.ret.token[1].AccessToken = <<"xoxp">>

----------------------------------------------------------------------------
(* C28 *)

\* DoOAuthFlow is past the call of openBrowser, and the call failed
BrowserFailed ==
    /\ pc \notin {"generateState", "buildAuthURL", "startCallbackServer", "openBrowser",
                  "idle"}
    /\ browser.printed # <<>>
    /\ ~browser.opened

\* C28: a failure to open the browser is not fatal. The authorization URL is
\* printed before openBrowser is called; whether openBrowser succeeds or
\* returns an error, DoOAuthFlow goes on to the select on the channels, with
\* nothing returned.
C28_BrowserFailureNotFatal ==
    [][(pc = "openBrowser" /\ pc' # "openBrowser") =>
          /\ browser.printed = authURL
          /\ browser'.printed = authURL
          /\ authURL # <<>>
          /\ pc' = "select"
          /\ result' = NoRet
          /\ received' = NotReceived]_vars

\* The browser could not be opened, and the flow returned a token
C28_Witness ==
    /\ BrowserFailed
    /\ pc = "returned"
    /\ received.kind = "code"
    /\ result.token # <<>>
    /\ result.err = <<>>

----------------------------------------------------------------------------
(* C29 *)

\* A step that starts the listener: startCallbackServer is executed
StartsListener == server = "none" /\ server' # "none"

\* A step that enters the wait: DoOAuthFlow reaches the select
EntersWait == pc # "select" /\ pc' = "select"

\* A step that sends a token-exchange request
SendsExchange == exchange' # exchange

\* C29: no retries. In one invocation of DoOAuthFlow the listener is started
\* at most once, the select is entered at most once, and at most one
\* token-exchange request is sent, whatever failures occur: once the listener
\* was started no step starts it again, the select is entered only with no
\* case taken before and nothing returned, and an exchange is sent only when
\* none was sent before.
C29_NoRetries ==
    [][/\ server # "none" => (server' = server /\ (lpc' = "spawned" => lpc = "spawned"))
       /\ StartsListener => pc = "startCallbackServer"
       /\ EntersWait => (pc = "openBrowser" /\ received = NotReceived /\ result = NoRet
                           /\ exchange = <<>>)
       /\ received # NotReceived => (received' = received /\ pc' \notin {"select", "blocked"})
       /\ SendsExchange => (exchange = <<>> /\ Len(exchange') = 1)
       /\ result # NoRet => (result' = result /\ pc' = "returned" /\ ~SendsExchange)]_vars

\* A flow whose token exchange failed has returned the error: one listener,
\* one select, one exchange
C29_Witness ==
    /\ pc = "returned"
    /\ server = "created"
    /\ received.kind = "code"
    /\ Len(exchange) = 1
    /\ exchange[1].resp.err # <<>>
    /\ result.token = <<>>
    /\ result.err # <<>>

----------------------------------------------------------------------------
(* C25 *)

\* The last command was a login whose environment has both variables of its
\* service set and non-empty
LoginWithEnv ==
    /\ store.cmd = "login"
    /\ store.name \in Services
    /\ Getenv(store.env, EnvClientID(store.name)) # <<>>
    /\ Getenv(store.env, EnvClientSecret(store.name)) # <<>>

\* The client credentials the keychain holds for the service of the last command
StoredCredentials == keychain[<<credentialsPrefix, store.name>>]

\* C25: environment variables take priority over keychain credentials. When
\* APPLINK_<SERVICE>_CLIENT_ID and APPLINK_<SERVICE>_CLIENT_SECRET are both
\* set and non-empty, GetCredentials returns exactly those values, with no
\* error, whatever the keychain holds and whether or not the keychain can be
\* used; a login in such an environment gets these credentials.
C25_EnvironmentFirst ==
    /\ \A name \in ServiceNames \cap Services, available \in BOOLEAN :
          GetCredentials(Setenv(name, <<"env-id">>, <<"env-secret">>), keychain,
                         available, name)
            = [creds |-> <<[ClientID |-> <<"env-id">>, ClientSecret |-> <<"env-secret">>]>>,
               err |-> <<>>]
    /\ LoginWithEnv =>
          /\ store.branch \in {"flow failed", "store failed", "stored"}
          /\ store.creds = <<[ClientID |-> Getenv(store.env, EnvClientID(store.name)),
                              ClientSecret |-> Getenv(store.env,
                                                      EnvClientSecret(store.name))]>>

\* A login with both variables set, while the keychain holds other
\* credentials for the service and cannot be used, got the credentials of the
\* environment
C25_Witness ==
    /\ LoginWithEnv
    /\ store.available[1] = FALSE
    /\ StoredCredentials # <<>>
    /\ StoredCredentials[1].client_id = <<"id-1">>
    /\ store.creds # <<>>
    /\ store.creds[1].ClientID = <<"env-id">>
    /\ store.creds[1].ClientSecret = <<"env-secret">>

----------------------------------------------------------------------------
(* C26 *)

\* The last command called the keychain and the backend failed
SetupStoreFailed ==
    /\ store.cmd = "setup"
    /\ store.branch \notin {"unknown service", "prompt"}
    /\ store.available = <<FALSE>>

LoginGetFailed ==
    /\ store.cmd = "login"
    /\ store.name \in Services
    /\ ~LoginWithEnv
    /\ store.available[1] = FALSE

LoginStoreFailed == store.cmd = "login" /\ store.branch = "store failed"

TokenGetFailed ==
    /\ store.cmd = "token"
    /\ store.name \in Services
    /\ store.available = <<FALSE>>

\* C26: every secret-store operation distinguishes "not found" from
\* "unavailable". A get for an absent entry returns no value and no error; a
\* backend failure of get or set, for client credentials and for tokens,
\* gives an error of the kind IsKeychainError recognises, and doOAuthLogin and
\* runSetup take their keychain-error branch.
C26_NotFoundOrUnavailable ==
    /\ \A name \in ServiceNames \cap Services :
          /\ keychain[<<credentialsPrefix, name>>] = <<>> =>
                getCredentialsFromKeychain(keychain, TRUE, name)
                   = [creds |-> <<>>, err |-> <<>>]
          /\ keychain[<<keyringServiceName, name>>] = <<>> =>
                GetToken(keychain, TRUE, name) = [token |-> <<>>, err |-> <<>>]
    /\ LoginGetFailed =>
          /\ IsKeychainError(getCredentialsFromKeychain(keychain, FALSE, store.name).err)
          /\ store.branch = "keychain error"
    /\ SetupStoreFailed =>
          /\ IsKeychainError(StoreCredentials(keychain, FALSE, store.name,
                                              CHOOSE c \in Typed : c.ClientID # <<>>).err)
          /\ store.branch = "keychain error"
    /\ TokenGetFailed => IsKeychainError(GetToken(keychain, FALSE, store.name).err)
    /\ LoginStoreFailed =>
          \A t \in Tokens : IsKeychainError(StoreToken(keychain, FALSE, store.name, t).err)

----------------------------------------------------------------------------
(* C27 *)

\* The last command was a logout of a registered service, and it succeeded
LoggedOut ==
    /\ store.cmd = "logout"
    /\ store.name \in Services
    /\ store.ret = <<>>

\* C27: after applink logout <service> succeeds, no stored credentials for
\* the service remain in the keychain: GetToken returns none, and
\* HasCredentials is false when no environment variables are set.
C27_LogoutRemovesAll ==
    LoggedOut =>
        /\ GetToken(keychain, TRUE, store.name) = [token |-> <<>>, err |-> <<>>]
        /\ ~HasCredentials(NoEnvironment, keychain, TRUE, store.name)
        /\ keychain[<<keyringServiceName, store.name>>] = <<>>
        /\ keychain[<<credentialsPrefix, store.name>>] = <<>>

----------------------------------------------------------------------------
(* C31 *)

\* The redirect_uri of the token-exchange request that was sent
ExchangeRedirect == exchange[1].req.body.redirect_uri

\* C31: within one flow the redirect_uri sent in the token-exchange request is
\* identical, in scheme, host, port and path, to the redirect_uri placed in
\* the authorization URL, for every provider.
C31_SameRedirectURI ==
    exchange # <<>> =>
        /\ authURL # <<>>
        /\ ExchangeRedirect = RedirectParam
        /\ ExchangeRedirect.scheme = RedirectParam.scheme
        /\ ExchangeRedirect.host = RedirectParam.host
        /\ ExchangeRedirect.port = RedirectParam.port
        /\ ExchangeRedirect.path = RedirectParam.path

\* A slack flow sent its exchange: both redirect URIs are https
C31_Witness ==
    /\ service = "slack"
    /\ exchange # <<>>
    /\ RedirectParam.scheme = "https"
    /\ ExchangeRedirect.scheme = "https"
    /\ ExchangeRedirect.port = defaultCallbackPort

----------------------------------------------------------------------------
(* C32 *)

\* DoOAuthFlow returned the error of generateState
StateGenerationFailed ==
    /\ pc = "returned"
    /\ result.err # <<>>
    /\ result.err[1] = "failed to generate state: "

\* DoOAuthFlow returned the error of buildAuthURL
URLBuildingFailed ==
    /\ pc = "returned"
    /\ result.err # <<>>
    /\ result.err[1] = "failed to build auth URL: "

\* C32: an invocation of DoOAuthFlow generates its state exactly once; the
\* state parameter of the authorization URL is the value the listener's
\* handler compares callbacks with; and when state generation or URL building
\* fails the flow returns the error with no URL built, no listener started and
\* no browser opened.
C32_OneState ==
    [][/\ expectedState' # expectedState =>
             (pc = "generateState" /\ expectedState = <<>> /\ authURL = <<>>)
       /\ authURL' # <<>> =>
             /\ expectedState' # <<>>
             /\ authURL'[1].query["state"] = expectedState'
             /\ \A i \in 1..Len(reqs') :
                   reqs'[i].out.chan = "code" =>
                      Get(Query(reqs'[i].query), "state") = authURL'[1].query["state"]
       /\ StateGenerationFailed' =>
             /\ expectedState' = <<>>
             /\ authURL' = <<>>
             /\ server' = "none"
             /\ lpc' = "none"
             /\ browser' = [printed |-> <<>>, opened |-> FALSE]
             /\ reqs' = <<>>
             /\ exchange' = <<>>
             /\ result'.token = <<>>
       /\ URLBuildingFailed' =>
             /\ expectedState' # <<>>
             /\ authURL' = <<>>
             /\ server' = "none"
             /\ lpc' = "none"
             /\ browser' = [printed |-> <<>>, opened |-> FALSE]
             /\ reqs' = <<>>
             /\ exchange' = <<>>
             /\ result'.token = <<>>]_vars

\* A callback with the state of the authorization URL was accepted
C32_Witness ==
    /\ authURL # <<>>
    /\ expectedState # <<>>
    /\ \E i \in 1..Len(reqs) :
          /\ reqs[i].out.chan = "code"
          /\ Get(Query(reqs[i].query), "state") = authURL[1].query["state"]
          /\ WonBy(i)
    /\ pc = "returned"

----------------------------------------------------------------------------
(* C33 *)

\* The goroutine of startCallbackServer exists and net.Listen inside
\* ListenAndServe has not returned: the port is not bound.
ListenerNotYetBound == lpc \in {"spawned", "listening"}

\* C33 (as claimed): once the browser has been opened to the authorization
\* URL, the listener goroutine has already bound the callback port, so no
\* callback can be sent while the port is still unbound.
C33_BoundBeforeBrowser == browser.opened => ~ListenerNotYetBound

----------------------------------------------------------------------------
(* C34 *)

\* shutdownServer called server.Shutdown on a nil *http.Server: the goroutine
\* of DoOAuthFlow ended with a nil-pointer panic and nothing is returned.
Panicked == pc = "panicked"

\* C34 (as claimed): under fairness of the goroutines, of the timer and of the
\* token request's bound, every run of DoOAuthFlow eventually returns a token
\* or an error, whatever callbacks arrive and also when startCallbackServer
\* returned no server.
C34_EventuallyReturns == <>(pc = "returned")

\* What does hold: every run ends, by a return or by the panic.
C34_EventuallyEnds == <>(pc = "returned" \/ Panicked)

----------------------------------------------------------------------------
(* C35 *)

\* The two files are present and the key file does not hold the private key
\* of the certificate file's authority
KeyCertMismatch ==
    /\ CAExists(TRUE, keyFile, certFile).exists
    /\ \/ keyFile.blocks = <<>>
       \/ certFile.blocks = <<>>
       \/ keyFile.blocks[1].ca # certFile.blocks[1].ca

\* C35 (as claimed): after any sequence of GenerateCA calls, failed ones
\* included, whenever CAExists returns true the persisted private key and the
\* persisted certificate belong to the same authority.
C35_KeyMatchesCert == ~KeyCertMismatch

----------------------------------------------------------------------------
(* C36 *)

\* CAExists and IsCAInstalled are both true
ExistsAndInstalled ==
    CAExists(TRUE, keyFile, certFile).exists /\ IsCAInstalled(goos, trustStore)

\* The last command found the setup complete: runInit printed "already
\* initialized", or ensureCertsInitialized returned at "Already set up"
ReportedInitialized ==
    \/ cli.cmd = "init" /\ Contains(cli.out, <<"applink is already initialized">>)
    \/ cli.cmd = "login" /\ cli.service = "slack" /\ cli.caExists /\ cli.out = <<>>
                         /\ cli.ret = <<>>

\* The trust store holds the certificate of an earlier authority while the
\* two files on disk hold a later one, key and certificate matching
StaleTrusted ==
    /\ WellFormed(keyFile, "EC PRIVATE KEY")
    /\ WellFormed(certFile, "CERTIFICATE")
    /\ keyFile.blocks[1].ca = certFile.blocks[1].ca
    /\ WellFormed(trustStore, "CERTIFICATE")
    /\ trustStore.blocks[1].ca < certFile.blocks[1].ca

\* C36 (as claimed): after any sequence of init and login runs, whenever
\* CAExists and IsCAInstalled are both true the certificate in the trust store
\* is the one persisted on disk, and no command reports the setup as
\* initialized while the trusted certificate is a stale one.
C36_TrustedIsPersisted ==
    /\ ExistsAndInstalled => trustStore = certFile
    /\ ReportedInitialized => ~StaleTrusted

----------------------------------------------------------------------------
(* C37 *)

\* The keychain entry of the token of the service named on the command line
TokenKey(name) == <<keyringServiceName, name>>

\* The step is a run of applink login
LoginRan == store'.cmd = "login"

\* C37: a run of applink login changes the keychain only in the entry of the
\* named service's token, and only when the authentication returned a token
\* with a non-empty access token, which is then what the entry holds; a login
\* that fails at any step leaves every stored token as it was.
C37_FailedLoginKeepsToken ==
    [][LoginRan =>
         /\ store'.branch # "stored" => keychain' = keychain
         /\ \A k \in KeychainKeys :
               keychain'[k] # keychain[k] =>
                  /\ k = TokenKey(store'.name)
                  /\ store'.branch = "stored"
                  /\ store'.ret = <<>>
                  /\ store'.token # <<>>
                  /\ store'.token[1].AccessToken # <<>>
                  /\ keychain'[k] = <<MarshalToken(store'.token[1])>>]_vars

\* A token is stored for slack, and the last command was a login to slack
\* whose authentication failed after the credentials were found.
C37_Witness ==
    /\ store.cmd = "login"
    /\ store.name = "slack"
    /\ store.branch = "flow failed"
    /\ store.ret # <<>>
    /\ keychain[TokenKey("slack")] # <<>>

----------------------------------------------------------------------------
(* C38 *)

\* The Cursor configuration holds, in the env of the service's entry, a value
\* for a variable the registry fills from the access token
TokenInCursor(name) ==
    /\ cursor # NoCursorConfig
    /\ \E e \in cursor[1].mcpServers :
          /\ e.name = name
          /\ \E p \in e.Env : <<p[1], "access_token">> \in MCPEnvVarsOf(name)

\* C38 (as claimed): after applink logout <service> succeeds, the service's
\* access token is persisted neither in the keychain nor in the env of the
\* service's entry of the Cursor MCP configuration.
C38_LogoutRemovesEverywhere ==
    LoggedOut =>
        /\ keychain[TokenKey(store.name)] = <<>>
        /\ ~TokenInCursor(store.name)

----------------------------------------------------------------------------
(* C39 *)

\* The address is one of the loopback interface
IsLoopback(ip) == ip = "127.0.0.1"

\* C39 (as claimed): the listener accepts connections only on the loopback
\* interface: every request the handler served, and so every outcome, came in
\* through the loopback address.
C39_LoopbackOnly == \A i \in 1..Len(reqs) : IsLoopback(reqs[i].via)

====
